---- MODULE Spec2Model ----
(***************************************************************************)
(* Entity-resolution and classification engine of open-valley: the        *)
(* classification function, the positive-signal dwelling inference, the   *)
(* STR review ledger, the bronze-to-silver transforms and the grand-list  *)
(* import, each translated from its Python source.                        *)
(***************************************************************************)
EXTENDS Integers, Sequences, FiniteSets, TLC

VARIABLES
    \* ---- classification function (models.py / schemas.py) ----
    dwl,          \* the Dwelling facts the classification is derived from
    modelTax,     \* result of Dwelling.tax_classification (ORM property)
    schemaTax,    \* result of DwellingBase.get_tax_classification (schema)
    descIn,       \* a DESCPROP text handed to parse_descprop_dwelling_count
    descCount,    \* what parse_descprop_dwelling_count returned for it
    \* ---- parcel store read by the inference engine and the review API ----
    parcelIn,     \* parcel -> [descprop, tax]: Parcel.descprop and its TaxStatus row
    listingParcel,\* listing -> STRListing.parcel_id (None when unmatched)
    dwellings,    \* committed rows of table dwellings
    \* ---- one infer_dwellings_positive_signal process per runner ----
    infPc,        \* runner -> "idle" | "loop" | "done" | "failed"
    infReset,     \* runner -> the reset argument of the run
    infRun,       \* runner -> ordinal of the run, which makes its uuid4 ids fresh
    infTodo,      \* runner -> parcels still to visit, in the order of the query
    infPending,   \* runner -> Dwellings added to the session, not yet committed
    infStats,     \* runner -> the stats dict of the run
    infStart,     \* runner -> [dw, after]: store at the start of the run and the
                  \*           outcome of the run that ended last before it
    lastOutcome,  \* outcome of the run that ended last: "none" | "completed" | "failed"
    runs,         \* number of runs started
    \* ---- STR review ledger (table str_review_status, PUT .../link) ----
    review,       \* listing -> its STRReviewStatus row, Null while there is none
    lastReq,      \* the last review request handled and its outcome
    requests,     \* number of review requests handled
    sameAsLast,   \* whether the last request repeated the one before it
    \* ---- bronze-to-silver transforms (import_str, import_airroi, import_pttr) ----
    bronzeStr,    \* rows of bronze_str_listings
    bronzePttr,   \* rows of bronze_pttr_transfers
    strListings,  \* rows of str_listings as the transforms write them
    propertyTransfers, \* rows of property_transfers
    trRuns,       \* number of transform runs completed
    trStats,      \* the TransformationStats the last run returned
    \* ---- grand-list import (import_vermont_unified.import_all) ----
    impInput,     \* what the input rows are made of (owner names, a condo or not)
    impDb,        \* committed rows: parcels and dwellings per SPAN, people per
                  \* name key, organizations per name
    impSess,      \* the same tables as the running session sees them (flushed)
    impPc,        \* "idle" | "loop" | "done" | "failed"
    impNext,      \* position in span_groups of the next SPAN, 0 outside a run
    person_cache, \* keys of the run's person_cache dict
    org_cache,    \* keys of the run's org_cache dict
    impStats,     \* the counters of the run
    impStart,     \* [db, after, clear]: committed rows when main() started,
                  \* the outcome of the run before it, and the --clear flag
    impOutcome,   \* outcome of the run that ended last
    impRuns,      \* number of import runs started
    \* ---- GIS parcel import (import_parcels.import_parcels) ----
    gisParcels,   \* rows of table parcels as import_parcels writes them
    gisOwners,    \* rows of table owners
    gisTaxStatus, \* rows of table tax_status
    gisLast,      \* the last run: its mode, the attributes it met per SPAN and
                  \* its counters
    \* ---- Front Porch Forum people (parse_fpf_emails.get_or_create_person) ----
    fpfPeople,    \* rows of table fpf_people as the session sees them
    fpfLast,      \* the last call: its arguments and what it returned
    fpfCalls,     \* number of calls made
    \* ---- spatial matching (import_str.match_listing_to_parcel) ----
    matchCalls,   \* the last two calls, each with its input and its result
    \* ---- SPAN matching (transformations.match_by_span) ----
    spanCall,     \* [span, parcels, out]: the SPAN of a bronze record, the SPAN
                  \* of each Parcel and the ParcelMatch returned, Null before
    \* ---- owner-name parsing (schemas.parse_owner_name) ----
    ownerCall,    \* [raw_name, out]: an owner string and the (people, org)
                  \* returned for it, Null before the call
    \* ---- Front Porch Forum import run (parse_fpf_emails.main) ----
    mailDb,       \* committed rows: [issues, posts, people]
    mailSess,     \* rows the session of the run holds, not yet committed
    mailRun,      \* [i, total_issues, total_posts, errors]: the loop index
                  \* and the counters of main
    mailPc        \* "loop" | "done"

clsVars == <<dwl, modelTax, schemaTax, descIn, descCount>>
storeVars == <<parcelIn, listingParcel, dwellings>>
infVars == <<infPc, infReset, infRun, infTodo, infPending, infStats, infStart,
             lastOutcome, runs>>

revVars == <<review, lastReq, requests, sameAsLast>>
trVars == <<bronzeStr, bronzePttr, strListings, propertyTransfers, trRuns,
            trStats>>
impVars == <<impInput, impDb, impSess, impPc, impNext, person_cache,
             org_cache, impStats, impStart, impOutcome, impRuns>>

gisVars == <<gisParcels, gisOwners, gisTaxStatus, gisLast>>
fpfVars == <<fpfPeople, fpfLast, fpfCalls>>
matchVars == <<matchCalls>>
mailVars == <<mailDb, mailSess, mailRun, mailPc>>
laterVars == <<gisVars, fpfVars, matchVars, spanCall, ownerCall, mailVars>>
vars == <<clsVars, storeVars, infVars, revVars, trVars, impVars, laterVars>>

\* what the engine (inference and review) leaves alone, and what the pure
\* functions leave alone
outsideEngine == <<clsVars, trVars, impVars, laterVars>>
outsideCls == <<storeVars, infVars, revVars, trVars, impVars, laterVars>>
outsideTransform == <<clsVars, storeVars, infVars, revVars, impVars, laterVars>>
outsideImport == <<clsVars, storeVars, infVars, revVars, trVars, laterVars>>
earlierVars == <<clsVars, storeVars, infVars, revVars, trVars, impVars>>
outsideGis == <<earlierVars, fpfVars, matchVars, spanCall, ownerCall, mailVars>>
outsideFpf == <<earlierVars, gisVars, matchVars, spanCall, ownerCall, mailVars>>
outsideMatch == <<earlierVars, gisVars, fpfVars, spanCall, ownerCall, mailVars>>
outsideSpan == <<earlierVars, gisVars, fpfVars, matchVars, ownerCall, mailVars>>
outsideOwner == <<earlierVars, gisVars, fpfVars, matchVars, spanCall, mailVars>>
outsideMail == <<earlierVars, gisVars, fpfVars, matchVars, spanCall, ownerCall>>


None == "None"
Unset == "Unset"

\* ------------------------------------------------------------------------
\* Classification function
\* ------------------------------------------------------------------------

DwellingUse ==
    {"full_time_residence", "short_term_rental", "second_home", "vacant",
     "seasonal", "commercial", "unknown"}

TaxClassification == {"HOMESTEAD", "NHS_RESIDENTIAL", "NHS_NONRESIDENTIAL"}

\* is_owner_occupied is bool | None
TriState == {"True", "False", None}

DwellingFacts ==
    [dwelling_use : DwellingUse \cup {None},
     is_owner_occupied : TriState,
     has_separate_entrance : BOOLEAN,
     has_sleeping_facilities : BOOLEAN,
     has_cooking_facilities : BOOLEAN,
     has_sanitary_facilities : BOOLEAN,
     is_year_round_habitable : BOOLEAN]

is_habitable_dwelling(d) ==
    /\ d.has_separate_entrance
    /\ d.has_sleeping_facilities
    /\ d.has_cooking_facilities
    /\ d.has_sanitary_facilities
    /\ d.is_year_round_habitable

\* Dwelling.tax_classification, the ORM property
tax_classification(d) ==
    IF d.dwelling_use = None THEN None
    ELSE IF d.dwelling_use = "full_time_residence" THEN
        IF d.is_owner_occupied = "True" THEN "HOMESTEAD"
        ELSE IF d.is_owner_occupied = "False" THEN "NHS_NONRESIDENTIAL"
        ELSE None
    ELSE IF d.dwelling_use \in {"second_home", "short_term_rental", "vacant"}
        THEN "NHS_RESIDENTIAL"
    ELSE IF d.dwelling_use \in {"seasonal", "commercial"}
        THEN "NHS_NONRESIDENTIAL"
    ELSE None

\* DwellingBase.get_tax_classification, the schema method
get_tax_classification(d) ==
    IF d.dwelling_use = None THEN None
    ELSE IF d.dwelling_use = "full_time_residence" THEN
        IF d.is_owner_occupied = "True" THEN "HOMESTEAD"
        ELSE IF d.is_owner_occupied = "False" THEN "NHS_NONRESIDENTIAL"
        ELSE None
    ELSE CASE d.dwelling_use = "short_term_rental" -> "NHS_RESIDENTIAL"
           [] d.dwelling_use = "second_home" -> "NHS_RESIDENTIAL"
           [] d.dwelling_use = "vacant" -> "NHS_RESIDENTIAL"
           [] d.dwelling_use = "commercial" -> "NHS_NONRESIDENTIAL"
           [] d.dwelling_use = "seasonal" -> None
           [] d.dwelling_use = "unknown" -> None
           [] OTHER -> None


\* ------------------------------------------------------------------------
\* Nullable values: a Python Optional is a tuple of length 0 (None) or 1
\* ------------------------------------------------------------------------
Null == <<>>
Some(v) == <<v>>
IsNull(o) == Len(o) = 0
Val(o) == o[1]

\* ------------------------------------------------------------------------
\* DESCPROP parsing (infer_dwellings_v2.py); a text is a tuple of characters
\* ------------------------------------------------------------------------
Ws == {" ", "\t"}
Digits == {"0", "1", "2", "3", "4", "5", "6", "7", "8", "9"}

DigitVal(c) ==
    CASE c = "0" -> 0 [] c = "1" -> 1 [] c = "2" -> 2 [] c = "3" -> 3
      [] c = "4" -> 4 [] c = "5" -> 5 [] c = "6" -> 6 [] c = "7" -> 7
      [] c = "8" -> 8 [] c = "9" -> 9

\* str.upper() on the letters the sample texts use
UpperChar(c) ==
    CASE c = "a" -> "A" [] c = "c" -> "C" [] c = "d" -> "D" [] c = "e" -> "E"
      [] c = "f" -> "F" [] c = "h" -> "H" [] c = "i" -> "I" [] c = "j" -> "J"
      [] c = "l" -> "L" [] c = "m" -> "M" [] c = "n" -> "N" [] c = "o" -> "O"
      [] c = "r" -> "R" [] c = "s" -> "S" [] c = "t" -> "T" [] c = "v" -> "V"
      [] c = "u" -> "U" [] c = "w" -> "W"
      [] OTHER -> c

upper(t) == [i \in 1..Len(t) |-> UpperChar(t[i])]

At(t, i, c) == i <= Len(t) /\ t[i] = c

RECURSIVE SkipWs(_, _)
\* \s* from position i: the first position that is not whitespace
SkipWs(t, i) == IF i <= Len(t) /\ t[i] \in Ws THEN SkipWs(t, i + 1) ELSE i

RECURSIVE SkipDigits(_, _)
\* \d* from position i: the first position that is not a digit
SkipDigits(t, i) ==
    IF i <= Len(t) /\ t[i] \in Digits THEN SkipDigits(t, i + 1) ELSE i

RECURSIVE IntOf(_, _, _)
\* int() of the digits t[i..j-1]
IntOf(t, i, j) ==
    IF i >= j THEN 0 ELSE IntOf(t, i, j - 1) * 10 + DigitVal(t[j - 1])

HasDWL(t, i) == At(t, i, "D") /\ At(t, i + 1, "W") /\ At(t, i + 2, "L")

\* r'&\s*(\d+)\s*DWLS?' matches at position i
CountMatchAt(t, i) ==
    LET j == SkipWs(t, i + 1)
        k == SkipDigits(t, j)
    IN  At(t, i, "&") /\ k > j /\ HasDWL(t, SkipWs(t, k))

\* r'&\s*DWL[.\s:]?' matches at position i
SingleMatchAt(t, i) == At(t, i, "&") /\ HasDWL(t, SkipWs(t, i + 1))

\* "& MF" in text
HasMF(t) ==
    \E i \in 1..Len(t) :
        At(t, i, "&") /\ At(t, i + 1, " ") /\ At(t, i + 2, "M") /\ At(t, i + 3, "F")

Min(S) == CHOOSE x \in S : \A y \in S : x <= y

\* the earlier parser, which assumes one dwelling when it finds no pattern
parse_descprop_default_one(descprop) ==
    IF IsNull(descprop) \/ Val(descprop) = <<>> THEN 1
    ELSE LET text == upper(Val(descprop))
             hits == {i \in 1..Len(text) : CountMatchAt(text, i)}
         IN  IF hits # {} THEN
                 LET i == Min(hits)
                     j == SkipWs(text, i + 1)
                 IN  IntOf(text, j, SkipDigits(text, j))
             ELSE IF \E i \in 1..Len(text) : SingleMatchAt(text, i) THEN 1
             ELSE IF HasMF(text) THEN 2
             ELSE 1

parse_descprop_dwelling_count(descprop) ==
    IF IsNull(descprop) \/ Val(descprop) = <<>> THEN 0
    ELSE LET text == upper(Val(descprop))
             hits == {i \in 1..Len(text) : CountMatchAt(text, i)}
         IN  IF hits # {} THEN
                 LET i == Min(hits)
                     j == SkipWs(text, i + 1)
                 IN  IntOf(text, j, SkipDigits(text, j))
             ELSE IF \E i \in 1..Len(text) : SingleMatchAt(text, i) THEN 1
             ELSE IF HasMF(text) THEN 2
             ELSE 0

\* ------------------------------------------------------------------------
\* The store: parcels, tax status rows, STR listings, dwellings
\* ------------------------------------------------------------------------
ParcelIds == {"p1", "p2"}
ListingIds == {1, 2}
\* NULL of a foreign key to str_listings
NoListing == 0
\* uuid4(): the k-th Dwelling a run creates for a parcel gets an id no other
\* Dwelling ever has
FreshId(run, parcel, k) == <<run, parcel, k>>

\* all orders in which a query without ORDER BY can return the rows S
Orderings(S) ==
    {s \in [1..Cardinality(S) -> S] : \A i, j \in DOMAIN s : i # j => s[i] # s[j]}

HomesteadFiled(tax) == ~IsNull(tax) /\ Val(tax).homestead_filed

\* tax_status.housesite_value and tax_status.housesite_value > 0
HousesitePositive(tax) ==
    /\ ~IsNull(tax)
    /\ ~IsNull(Val(tax).housesite_value)
    /\ Val(Val(tax).housesite_value) > 0

classify_dwelling(tax_status, str_listing) ==
    IF HomesteadFiled(tax_status) THEN
        [dwelling_use |-> "full_time_residence", dwelling_type |-> "main_house",
         is_owner_occupied |-> "True", tax_classification |-> "HOMESTEAD",
         homestead_filed |-> TRUE]
    ELSE IF str_listing # NoListing THEN
        [dwelling_use |-> "short_term_rental", dwelling_type |-> "main_house",
         is_owner_occupied |-> "False", tax_classification |-> "NHS_RESIDENTIAL",
         homestead_filed |-> FALSE]
    ELSE
        [dwelling_use |-> "second_home", dwelling_type |-> "main_house",
         is_owner_occupied |-> None, tax_classification |-> "NHS_RESIDENTIAL",
         homestead_filed |-> FALSE]

\* the chain with the housesite branch ahead of the filing-flag branch
winning_signal_housesite_first(descprop_count, tax_status, str_listings) ==
    IF descprop_count > 0 THEN "descprop"
    ELSE IF HousesitePositive(tax_status) THEN "housesite"
    ELSE IF HomesteadFiled(tax_status) THEN "homestead"
    ELSE IF Len(str_listings) > 0 THEN "str_listing"
    ELSE "none"

\* the if / elif chain of the positive-signal hierarchy: which branch runs
winning_signal(descprop_count, tax_status, str_listings) ==
    IF descprop_count > 0 THEN "descprop"
    ELSE IF HomesteadFiled(tax_status) THEN "homestead"
    ELSE IF HousesitePositive(tax_status) THEN "housesite"
    ELSE IF Len(str_listings) > 0 THEN "str_listing"
    ELSE "none"

\* the list dwellings_to_create built for one parcel
dwellings_to_create(descprop, tax_status, str_listings) ==
    LET descprop_count == parse_descprop_dwelling_count(descprop)
        signal == winning_signal(descprop_count, tax_status, str_listings)
    IN  CASE signal = "descprop" ->
              [k \in 1..descprop_count |->
                 LET str_listing == IF k <= Len(str_listings)
                                    THEN str_listings[k] ELSE NoListing
                     attrs == IF k = 1 /\ HomesteadFiled(tax_status)
                              THEN classify_dwelling(tax_status, NoListing)
                              ELSE classify_dwelling(Null, str_listing)
                 IN  [attrs |-> attrs, data_source |-> "descprop",
                      source_confidence |-> 95,
                      unit_number |-> IF descprop_count = 1 THEN 0 ELSE k,
                      str_listing |-> str_listing]]
          [] signal = "homestead" ->
              <<[attrs |-> classify_dwelling(tax_status, NoListing),
                 data_source |-> "homestead", source_confidence |-> 95,
                 unit_number |-> 0, str_listing |-> NoListing]>>
          [] signal = "housesite" ->
              LET str_listing == IF Len(str_listings) > 0
                                 THEN str_listings[1] ELSE NoListing
              IN  <<[attrs |-> classify_dwelling(Null, str_listing),
                     data_source |-> "housesite", source_confidence |-> 85,
                     unit_number |-> 0, str_listing |-> str_listing]>>
          [] signal = "str_listing" ->
              [k \in 1..Len(str_listings) |->
                 [attrs |-> classify_dwelling(Null, str_listings[k]),
                  data_source |-> "str_listing", source_confidence |-> 80,
                  unit_number |-> 0, str_listing |-> str_listings[k]]]
          [] OTHER -> <<>>

\* Dwelling(...) as constructed in the creation loop
NewDwelling(id, parcel, dw_data) ==
    [id |-> id,
     parcel_id |-> parcel,
     unit_number |-> dw_data.unit_number,
     dwelling_type |-> dw_data.attrs.dwelling_type,
     dwelling_use |-> dw_data.attrs.dwelling_use,
     is_owner_occupied |-> dw_data.attrs.is_owner_occupied,
     homestead_filed |-> dw_data.attrs.homestead_filed,
     str_listing_id |-> dw_data.str_listing,
     data_source |-> dw_data.data_source,
     source_confidence |-> dw_data.source_confidence]

\* ------------------------------------------------------------------------
\* infer_dwellings_positive_signal, one step per parcel of its loop
\* ------------------------------------------------------------------------
Runners == {"r1", "r2"}
MaxRuns == 2

ZeroStats == [dwellings_created |-> 0, skipped_existing |-> 0,
              skipped_no_signal |-> 0]

Running(r) == infPc[r] = "loop"

\* the loop without its check for existing dwellings
skip_existing_never(reset, existing) == FALSE

\* if not reset: existing > 0 -> skip the parcel
skip_existing(reset, existing) == ~reset /\ existing > 0

\* str_review_status.dwelling_id is a foreign key to dwellings.id without
\* ON DELETE: the store refuses to delete a Dwelling a review row names
DeleteDwellingsRefused ==
    \E l \in ListingIds, d \in dwellings :
        ~IsNull(review[l]) /\ Val(review[l]).dwelling_id = Some(d.id)

\* entry: optional reset (committed at once), then the parcel query
InferStart(r, reset) ==
    /\ ~Running(r)
    /\ runs < MaxRuns
    /\ runs' = runs + 1
    /\ infReset' = [infReset EXCEPT ![r] = reset]
    /\ infRun' = [infRun EXCEPT ![r] = runs + 1]
    /\ infPending' = [infPending EXCEPT ![r] = {}]
    /\ infStats' = [infStats EXCEPT ![r] = ZeroStats]
    /\ infStart' = [infStart EXCEPT ![r] = [dw |-> dwellings, after |-> lastOutcome]]
    /\ IF reset /\ DeleteDwellingsRefused
       THEN \* delete(Dwelling) raises, nothing was committed
            /\ infPc' = [infPc EXCEPT ![r] = "failed"]
            /\ infTodo' = [infTodo EXCEPT ![r] = <<>>]
            /\ lastOutcome' = "failed"
            /\ UNCHANGED dwellings
       ELSE /\ dwellings' = IF reset THEN {} ELSE dwellings
            /\ \E order \in Orderings(ParcelIds) :
                  infTodo' = [infTodo EXCEPT ![r] = order]
            /\ infPc' = [infPc EXCEPT ![r] = "loop"]
            /\ UNCHANGED lastOutcome
    /\ UNCHANGED <<parcelIn, listingParcel, revVars, outsideEngine>>

\* one iteration of "for parcel in parcels"
InferParcel(r) ==
    /\ Running(r)
    /\ infTodo[r] # <<>>
    /\ LET parcel == Head(infTodo[r])
           existing == Cardinality({d \in dwellings \cup infPending[r] :
                                        d.parcel_id = parcel})
       IN  IF skip_existing(infReset[r], existing) THEN
               /\ infStats' = [infStats EXCEPT ![r].skipped_existing = @ + 1]
               /\ UNCHANGED infPending
           ELSE
               \E str_listings \in Orderings({l \in ListingIds :
                                                 listingParcel[l] = parcel}) :
                   LET todo == dwellings_to_create(parcelIn[parcel].descprop,
                                                   parcelIn[parcel].tax,
                                                   str_listings)
                   IN  IF todo = <<>> THEN
                           /\ infStats' = [infStats EXCEPT
                                              ![r].skipped_no_signal = @ + 1]
                           /\ UNCHANGED infPending
                       ELSE
                           /\ infPending' = [infPending EXCEPT ![r] = @ \cup
                                 {NewDwelling(FreshId(infRun[r], parcel, k),
                                              parcel, todo[k]) :
                                      k \in 1..Len(todo)}]
                           /\ infStats' = [infStats EXCEPT
                                 ![r].dwellings_created = @ + Len(todo)]
    /\ infTodo' = [infTodo EXCEPT ![r] = Tail(@)]
    /\ UNCHANGED <<parcelIn, listingParcel, dwellings, infPc, infReset, infRun,
                   infStart, lastOutcome, runs, revVars, outsideEngine>>

\* session.commit() after the loop
InferCommit(r) ==
    /\ Running(r)
    /\ infTodo[r] = <<>>
    /\ dwellings' = dwellings \cup infPending[r]
    /\ infPending' = [infPending EXCEPT ![r] = {}]
    /\ infPc' = [infPc EXCEPT ![r] = "done"]
    /\ lastOutcome' = "completed"
    /\ UNCHANGED <<parcelIn, listingParcel, infReset, infRun, infTodo, infStats,
                   infStart, runs, revVars, outsideEngine>>

\* an exception or an abort inside the loop: the session is never committed
\* and the locals of the call (parcels, stats) are gone with it
InferFail(r) ==
    /\ Running(r)
    /\ infPending' = [infPending EXCEPT ![r] = {}]
    /\ infPc' = [infPc EXCEPT ![r] = "failed"]
    /\ infTodo' = [infTodo EXCEPT ![r] = <<>>]
    /\ infStats' = [infStats EXCEPT ![r] = ZeroStats]
    /\ lastOutcome' = "failed"
    /\ UNCHANGED <<parcelIn, listingParcel, dwellings, infReset, infRun,
                   infStart, runs, revVars, outsideEngine>>

\* ------------------------------------------------------------------------
\* update_str_review: PUT /api/admin/str-review/{listing_id}/link
\* ------------------------------------------------------------------------
MaxRequests == 2

\* an id that names no STRListing row, and one that names no Dwelling row
UnknownListing == 3
UnknownDwelling == <<0, "p1", 0>>

NoRequest == [listing |-> NoListing, action |-> "none", dwelling_id |-> Null,
              rejection_reason |-> Null, result |-> "none"]

\* STRReviewAction.validate_action_requirements
validate_action_requirements(action, dwelling_id, rejection_reason) ==
    /\ ~(action = "confirm" /\ (IsNull(dwelling_id)))
    /\ ~(action = "reject" /\
             (IsNull(rejection_reason) \/ Val(rejection_reason) = ""))

\* a handler whose skip puts the entry back in the queue
status_for_skip_requeues(action) ==
    CASE action = "confirm" -> "confirmed"
      [] action = "reject" -> "rejected"
      [] action = "skip" -> "unreviewed"

\* review_status.status as each branch of the handler sets it
status_for(action) ==
    CASE action = "confirm" -> "confirmed"
      [] action = "reject" -> "rejected"
      [] action = "skip" -> "skipped"

\* a confirm that leaves the Dwelling row alone
link_dwelling_omitted(listing_id, dwelling_id) == dwellings

\* a confirm that takes the link away again when it is already there
link_dwelling_toggled(listing_id, dwelling_id) ==
    {IF d.id = dwelling_id
     THEN [d EXCEPT !.str_listing_id =
                IF @ = listing_id THEN NoListing ELSE listing_id]
     ELSE d : d \in dwellings}

\* dwelling.str_listing_id = listing_uuid, on the Dwelling the request names
link_dwelling(listing_id, dwelling_id) ==
    {IF d.id = dwelling_id THEN [d EXCEPT !.str_listing_id = listing_id]
     ELSE d : d \in dwellings}

\* the row the handler works on: the stored one, or a new "unreviewed" one
get_or_create_review_status(listing_id) ==
    IF ~IsNull(review[listing_id]) THEN Val(review[listing_id])
    ELSE [status |-> "unreviewed", dwelling_id |-> Null,
          rejection_reason |-> Null, reviewed_by |-> Null]

Answer(listing_id, action, dwelling_id, rejection_reason, result) ==
    /\ lastReq' = [listing |-> listing_id, action |-> action,
                   dwelling_id |-> dwelling_id,
                   rejection_reason |-> rejection_reason, result |-> result]
    /\ requests' = requests + 1
    /\ sameAsLast' = /\ lastReq.listing = listing_id
                     /\ lastReq.action = action
                     /\ lastReq.dwelling_id = dwelling_id
                     /\ lastReq.rejection_reason = rejection_reason

\* the whole handler, request validation included
UpdateStrReview(listing_id, action, dwelling_id, rejection_reason) ==
    /\ requests < MaxRequests
    /\ IF ~validate_action_requirements(action, dwelling_id, rejection_reason)
       THEN \* 422 from the request model, the handler never runs
            /\ Answer(listing_id, action, dwelling_id, rejection_reason, "422")
            /\ UNCHANGED <<review, dwellings>>
       ELSE IF listing_id \notin ListingIds
       THEN \* no review row and no STRListing: 404
            /\ Answer(listing_id, action, dwelling_id, rejection_reason, "404")
            /\ UNCHANGED <<review, dwellings>>
       ELSE LET review_status == get_or_create_review_status(listing_id)
            IN  CASE action = "confirm" ->
                      IF \E d \in dwellings : d.id = Val(dwelling_id) THEN
                          /\ review' = [review EXCEPT ![listing_id] =
                                Some([status |-> status_for(action),
                                      dwelling_id |-> dwelling_id,
                                      rejection_reason |-> Null,
                                      reviewed_by |-> Some("admin")])]
                          /\ dwellings' =
                                link_dwelling(listing_id, Val(dwelling_id))
                          /\ Answer(listing_id, action, dwelling_id,
                                    rejection_reason, "ok")
                      ELSE \* 404 Dwelling not found, the session is rolled back
                          /\ Answer(listing_id, action, dwelling_id,
                                    rejection_reason, "404")
                          /\ UNCHANGED <<review, dwellings>>
                  [] action = "reject" ->
                      /\ review' = [review EXCEPT ![listing_id] =
                            Some([status |-> status_for(action),
                                  dwelling_id |-> Null,
                                  rejection_reason |-> rejection_reason,
                                  reviewed_by |-> Some("admin")])]
                      /\ Answer(listing_id, action, dwelling_id,
                                rejection_reason, "ok")
                      /\ UNCHANGED dwellings
                  [] action = "skip" ->
                      /\ review' = [review EXCEPT ![listing_id] =
                            Some([review_status EXCEPT
                                    !.status = status_for(action),
                                    !.reviewed_by = Some("admin")])]
                      /\ Answer(listing_id, action, dwelling_id,
                                rejection_reason, "ok")
                      /\ UNCHANGED dwellings
    /\ UNCHANGED <<parcelIn, listingParcel, infVars, outsideEngine>>

\* ------------------------------------------------------------------------
\* transform_bronze_to_silver of import_str, import_airroi and import_pttr
\* ------------------------------------------------------------------------
StrBronzeIds == {"b1", "b2"}
PttrBronzeIds == {"t1"}
MaxTransforms == 3

\* what decides the fate of a bronze row: its api_source, whether a parcel
\* is found for it, and whether its conversion succeeds ("oversize": its
\* property_type fits bronze String(100) but not silver String(50), which
\* only the normalization of the airroi transform brings down)
StrBronzeShapes ==
    [api_source : {"airroi", "apify"}, located : BOOLEAN,
     quality : {"ok", "error", "oversize"}]
PttrBronzeShapes ==
    [span_known : BOOLEAN, quality : {"ok", "rejected", "error"}]

ZeroTrStats ==
    [source |-> "none", records_processed |-> 0, records_valid |-> 0,
     records_skipped |-> 0, records_with_parcel_match |-> 0,
     records_without_parcel_match |-> 0]

\* a query without the "not transformed yet" filter
unprocessed_all(bronze, silver) == bronze

\* select(Bronze).where(~Bronze.id.in_(select(Silver.bronze_id)))
unprocessed(bronze, silver) ==
    {b \in bronze : b.id \notin {x.bronze_id : x \in silver}}

\* the silver row made from a bronze row in the run after trRuns
SilverRow(b, parcel_matched) ==
    [id |-> <<trRuns + 1, b.id>>, bronze_id |-> b.id,
     parcel_matched |-> parcel_matched]

\* scripts/land/import_str.py: the parcel match is counted first, the
\* conversion of the row may raise afterwards. The raw property_type is
\* copied to the silver row: the INSERT of an oversize one is refused when
\* the session is flushed, outside the try of its record, so that
\* session.commit() raises, nothing is committed and no stats come back
TransformStr ==
    /\ trRuns < MaxTransforms
    /\ LET bronze_records == unprocessed(bronzeStr, strListings)
           valid == {b \in bronze_records : b.quality = "ok"}
       IN  IF \E b \in bronze_records : b.quality = "oversize"
           THEN /\ strListings' = strListings
                /\ trStats' = [ZeroTrStats EXCEPT !.source = "raised"]
           ELSE
           /\ strListings' =
                 strListings \cup {SilverRow(b, b.located) : b \in valid}
           /\ trStats' =
                 [source |-> "bronze_str_listings",
                  records_processed |-> Cardinality(bronze_records),
                  records_valid |-> Cardinality(valid),
                  records_skipped |-> Cardinality(bronze_records \ valid),
                  records_with_parcel_match |->
                      Cardinality({b \in bronze_records : b.located}),
                  records_without_parcel_match |->
                      Cardinality({b \in bronze_records : ~b.located})]
    /\ trRuns' = trRuns + 1
    /\ UNCHANGED <<bronzeStr, bronzePttr, propertyTransfers, outsideTransform>>

\* api/scripts/import_airroi.py: only rows of api_source "airroi"; the input
\* model is validated before the parcel match is counted
TransformAirroi ==
    /\ trRuns < MaxTransforms
    /\ LET bronze_records ==
               {b \in unprocessed(bronzeStr, strListings) :
                    b.api_source = "airroi"}
           valid == {b \in bronze_records : b.quality \in {"ok", "oversize"}}
       IN  /\ strListings' =
                 strListings \cup {SilverRow(b, b.located) : b \in valid}
           /\ trStats' =
                 [source |-> "bronze_str_listings",
                  records_processed |-> Cardinality(bronze_records),
                  records_valid |-> Cardinality(valid),
                  records_skipped |-> Cardinality(bronze_records \ valid),
                  records_with_parcel_match |->
                      Cardinality({b \in valid : b.located}),
                  records_without_parcel_match |->
                      Cardinality({b \in valid : ~b.located})]
    /\ trRuns' = trRuns + 1
    /\ UNCHANGED <<bronzeStr, bronzePttr, propertyTransfers, outsideTransform>>

\* api/scripts/import_pttr.py: a row whose input model raises is skipped
\* before the match, one that from_bronze turns down is skipped after it
TransformPttr ==
    /\ trRuns < MaxTransforms
    /\ LET bronze_records == unprocessed(bronzePttr, propertyTransfers)
           valid == {b \in bronze_records : b.quality = "ok"}
           matched == {b \in bronze_records : b.quality # "error"}
       IN  /\ propertyTransfers' =
                 propertyTransfers \cup
                     {SilverRow(b, b.span_known) : b \in valid}
           /\ trStats' =
                 [source |-> "bronze_pttr_transfers",
                  records_processed |-> Cardinality(bronze_records),
                  records_valid |-> Cardinality(valid),
                  records_skipped |-> Cardinality(bronze_records \ valid),
                  records_with_parcel_match |->
                      Cardinality({b \in matched : b.span_known}),
                  records_without_parcel_match |->
                      Cardinality({b \in matched : ~b.span_known})]
    /\ trRuns' = trRuns + 1
    /\ UNCHANGED <<bronzeStr, bronzePttr, strListings, outsideTransform>>

\* ------------------------------------------------------------------------
\* import_vermont_unified: parse_owner_name and import_all
\* ------------------------------------------------------------------------
NumSpans == 101
Spans == 1..NumSpans
CommitEvery == 100
MaxImports == 2

\* owner names are sequences of whitespace-separated tokens
W_AMP == <<"&">>

N_SMITH_JOHN == <<<<"S", "M", "I", "T", "H">>, <<"J", "O", "H", "N">>>>
N_SMITH_JR_JOHN ==
    <<<<"S", "M", "I", "T", "H">>, <<"J", "R">>, <<"J", "O", "H", "N">>>>
N_MAD_RIVER_LLC ==
    <<<<"M", "A", "D">>, <<"R", "I", "V", "E", "R">>, <<"L", "L", "C">>>>
N_mad_river_llc ==
    <<<<"m", "a", "d">>, <<"r", "i", "v", "e", "r">>, <<"l", "l", "c">>>>

\* the words of LLC_PATTERN, CORP_PATTERN, TRUST_PATTERN and ESTATE_PATTERN
LLC_PATTERN == {<<"L", "L", "C">>, <<"L", ".", "L", ".", "C">>}
CORP_PATTERN ==
    {<<"I", "N", "C">>, <<"C", "O", "R", "P">>,
     <<"C", "O", "R", "P", "O", "R", "A", "T", "I", "O", "N">>}
TRUST_PATTERN ==
    {<<"T", "R", "U", "S", "T">>, <<"T", "R", "U", "S", "T", "E", "E">>}
ESTATE_PATTERN == {<<"E", "S", "T", "A", "T", "E">>}
SUFFIXES == {<<"J", "R">>, <<"S", "R">>, <<"I", "I">>, <<"I", "I", "I">>,
             <<"I", "V">>, <<"V">>}

\* pattern.search(name) with re.IGNORECASE: some whole word of the name
search(pattern, tokens) ==
    \E i \in 1..Len(tokens) : upper(tokens[i]) \in pattern

LowerChar(c) ==
    CASE c = "A" -> "a" [] c = "C" -> "c" [] c = "D" -> "d" [] c = "E" -> "e"
      [] c = "H" -> "h" [] c = "I" -> "i" [] c = "J" -> "j" [] c = "L" -> "l"
      [] c = "M" -> "m" [] c = "N" -> "n" [] c = "O" -> "o" [] c = "R" -> "r"
      [] c = "S" -> "s" [] c = "T" -> "t" [] c = "V" -> "v"
      [] c = "B" -> "b" [] c = "U" -> "u"
      [] OTHER -> c

\* str.title() of one word of letters
title(t) ==
    [i \in 1..Len(t) |-> IF i = 1 THEN UpperChar(t[i]) ELSE LowerChar(t[i])]

\* tokens[:tokens.index("&")] when "&" is a token
BeforeAmp(tokens) ==
    IF \E i \in 1..Len(tokens) : tokens[i] = W_AMP
    THEN SubSeq(tokens, 1,
                (CHOOSE i \in 1..Len(tokens) :
                     /\ tokens[i] = W_AMP
                     /\ \A j \in 1..(i - 1) : tokens[j] # W_AMP) - 1)
    ELSE tokens

Organization(org_type, name) ==
    Some([is_organization |-> TRUE, org_type |-> Some(org_type),
          first_name |-> Null, last_name |-> Null, suffix |-> Null,
          raw_name |-> name])

parse_owner_name(raw_name) ==
    IF IsNull(raw_name) \/ Val(raw_name) = <<>> THEN Null
    ELSE LET name == Val(raw_name)
             tokens == BeforeAmp(name)
         IN  IF search(LLC_PATTERN, name) THEN Organization("llc", name)
             ELSE IF search(CORP_PATTERN, name)
                  THEN Organization("corporation", name)
             ELSE IF search(TRUST_PATTERN, name) THEN Organization("trust", name)
             ELSE IF search(ESTATE_PATTERN, name)
                  THEN Organization("estate", name)
             ELSE IF tokens = <<>> THEN Null
             ELSE LET has_suffix ==
                          Len(tokens) >= 2 /\ upper(tokens[2]) \in SUFFIXES
                  IN  Some([is_organization |-> FALSE, org_type |-> Null,
                            first_name |->
                                IF has_suffix
                                THEN (IF Len(tokens) >= 3
                                      THEN Some(title(tokens[3])) ELSE Null)
                                ELSE (IF Len(tokens) >= 2
                                      THEN Some(title(tokens[2])) ELSE Null),
                            last_name |-> Some(title(tokens[1])),
                            suffix |-> IF has_suffix THEN Some(upper(tokens[2]))
                                       ELSE Null,
                            raw_name |-> name])

\* f"{first_name or ''} {last_name or ''}".strip().upper()
cache_key(parsed) ==
    (IF IsNull(parsed.first_name) THEN <<>>
     ELSE <<upper(Val(parsed.first_name))>>)
    \o (IF IsNull(parsed.last_name) THEN <<>>
        ELSE <<upper(Val(parsed.last_name))>>)

\* the OWNER1 values of the input rows
OwnerNames ==
    {Null, Some(N_SMITH_JOHN), Some(N_SMITH_JR_JOHN), Some(N_MAD_RIVER_LLC),
     Some(N_mad_river_llc)}

PersonKeys ==
    {cache_key(Val(parse_owner_name(n))) :
        n \in {m \in OwnerNames :
                 /\ ~IsNull(parse_owner_name(m))
                 /\ ~Val(parse_owner_name(m)).is_organization}}
OrgNames ==
    {Val(n) : n \in {m \in OwnerNames :
                        /\ ~IsNull(parse_owner_name(m))
                        /\ Val(parse_owner_name(m)).is_organization}}

\* the rows handed to import_all: one row per SPAN, owners alternating
\* between two names mailed at two towns, and with a condo a second row
\* for the first SPAN, which has no mailing town
VermontRow(span, owner_name, mailing_city) ==
    [span |-> span, owner_name |-> owner_name, mailing_city |-> mailing_city]

rows ==
    [i \in 1..(NumSpans + (IF impInput.condo THEN 1 ELSE 0)) |->
        IF i > NumSpans THEN VermontRow(1, impInput.owner_b, Null)
        ELSE IF i % 2 = 1 THEN VermontRow(i, impInput.owner_a, Some("WARREN"))
        ELSE VermontRow(i, impInput.owner_b, Some("BOSTON"))]

\* span_groups[span]; the SPANs come in the order of their first row
span_groups(span) == SelectSeq(rows, LAMBDA row : row.span = span)

EmptyTables ==
    [parcels |-> [s \in Spans |-> 0],
     dwellings |-> [s \in Spans |-> 0],
     people |-> [k \in PersonKeys |-> 0],
     organizations |-> [n \in OrgNames |-> 0]]

ZeroImpStats ==
    [parcels_created |-> 0, parcels_updated |-> 0, dwellings_created |-> 0,
     people_created |-> 0, orgs_created |-> 0]

\* clear_derived_tables: dwellings, people and organizations, not parcels
clear_derived_tables(db) ==
    [EmptyTables EXCEPT !.parcels = db.parcels]

\* organizations.name is unique: the flush of a second row of that name
\* raises IntegrityError
OrganizationNameTaken(tables, name) == tables.organizations[name] > 0

\* the body of "for i, row in enumerate(unit_rows)" for one row; st holds
\* the session's tables, the two caches, the counters and whether a flush
\* has raised
ImportRow(st, span, row) ==
    LET parsed == parse_owner_name(row.owner_name)
        with_dwelling ==
            [st EXCEPT !.sess.dwellings[span] = @ + 1,
                       !.stats.dwellings_created = @ + 1]
    IN  IF IsNull(parsed) THEN with_dwelling
        ELSE IF Val(parsed).is_organization THEN
            LET name == Val(parsed).raw_name
            IN  IF name \in st.org_cache THEN with_dwelling
                ELSE IF OrganizationNameTaken(st.sess, name)
                THEN [with_dwelling EXCEPT !.raised = TRUE]
                ELSE [with_dwelling EXCEPT
                        !.sess.organizations[name] = @ + 1,
                        !.org_cache = @ \cup {name},
                        !.stats.orgs_created = @ + 1]
        ELSE
            LET key == cache_key(Val(parsed))
            IN  IF key \in st.person_cache THEN with_dwelling
                ELSE [with_dwelling EXCEPT
                        !.sess.people[key] = @ + 1,
                        !.person_cache = @ \cup {key},
                        !.stats.people_created = @ + 1]

RECURSIVE ImportRows(_, _, _, _)
\* the rows of one SPAN in order, up to the first flush that raises
ImportRows(st, span, unit_rows, i) ==
    IF i > Len(unit_rows) \/ st.raised THEN st
    ELSE ImportRows(ImportRow(st, span, unit_rows[i]), span, unit_rows, i + 1)

\* select(Parcel).where(Parcel.span == span), then update or create
UpsertParcel(st, span) ==
    IF st.sess.parcels[span] > 0
    THEN [st EXCEPT !.stats.parcels_updated = @ + 1]
    ELSE [st EXCEPT !.sess.parcels[span] = 1,
                    !.stats.parcels_created = @ + 1]

\* if (parcels_created + parcels_updated) % 100 == 0
commit_due(stats) ==
    (stats.parcels_created + stats.parcels_updated) % CommitEvery = 0

\* main() with or without --clear, up to the first SPAN of import_all
ImportStart(clear) ==
    /\ impPc # "loop"
    /\ impRuns < MaxImports
    /\ impRuns' = impRuns + 1
    /\ impDb' = IF clear THEN clear_derived_tables(impDb) ELSE impDb
    /\ impSess' = impDb'
    /\ impPc' = "loop"
    /\ impNext' = 1
    /\ person_cache' = {}
    /\ org_cache' = {}
    /\ impStats' = ZeroImpStats
    /\ impStart' = [db |-> impDb, after |-> impOutcome, clear |-> clear]
    /\ UNCHANGED <<impInput, impOutcome, outsideImport>>

\* the run dies: what the session had not committed is lost
ImportAborted ==
    /\ impSess' = impDb'
    /\ impPc' = "failed"
    /\ impNext' = 0
    /\ person_cache' = {}
    /\ org_cache' = {}
    /\ impStats' = ZeroImpStats
    /\ impOutcome' = "failed"

\* one iteration of "for span, unit_rows in span_groups.items()"
ImportSpan ==
    /\ impPc = "loop"
    /\ impNext <= NumSpans
    /\ LET st == ImportRows(
                    UpsertParcel([sess |-> impSess,
                                  person_cache |-> person_cache,
                                  org_cache |-> org_cache,
                                  stats |-> impStats, raised |-> FALSE],
                                 impNext),
                    impNext, span_groups(impNext), 1)
       IN  IF st.raised
           THEN /\ impDb' = impDb
                /\ ImportAborted
           ELSE /\ impSess' = st.sess
                /\ person_cache' = st.person_cache
                /\ org_cache' = st.org_cache
                /\ impStats' = st.stats
                /\ impDb' = IF commit_due(st.stats) THEN st.sess ELSE impDb
                /\ impNext' = impNext + 1
                /\ UNCHANGED <<impPc, impOutcome>>
    /\ UNCHANGED <<impInput, impStart, impRuns, outsideImport>>

\* the commit after the loop
ImportFinish ==
    /\ impPc = "loop"
    /\ impNext > NumSpans
    /\ impDb' = impSess
    /\ impPc' = "done"
    /\ impNext' = 0
    /\ person_cache' = {}
    /\ org_cache' = {}
    /\ impOutcome' = "completed"
    /\ UNCHANGED <<impInput, impSess, impStats, impStart, impRuns,
                   outsideImport>>

\* the process is stopped, or the database goes away, during the run
ImportFail ==
    /\ impPc = "loop"
    /\ impDb' = impDb
    /\ ImportAborted
    /\ UNCHANGED <<impInput, impStart, impRuns, outsideImport>>

\* ------------------------------------------------------------------------
\* Initial states and specifications
\* ------------------------------------------------------------------------

\* sample DESCPROP texts
T_5AC == <<"5", " ", "A", "C">>
T_DWL == <<"A", "C", " ", "&", " ", "D", "W", "L">>
T_2dwls == <<"a", "c", " ", "&", " ", "2", " ", "d", "w", "l", "s">>
T_2DWLS_noamp == <<"2", " ", "D", "W", "L", "S">>
T_AMP == <<"A", " ", "&", " ", "B">>

\* texts without any dwelling-count pattern (None and "" included)
NoPatternDescprops ==
    {Null, Some(<<>>), Some(T_5AC), Some(T_2DWLS_noamp), Some(T_AMP)}

\* ---------------------------------------------------------------------
\* GIS parcel import: import_parcels.import_parcels
\* ---------------------------------------------------------------------
GisSpans == {"s1", "s2"}

\* features of one run, fewer than a page of 1000
MaxFeatures == 2

\* what parse_parcel keeps of a feature: the SPAN (absent on some
\* features), an attribute (ACRESGL) and the two owner fields
FeatureShapes ==
    {[acres |-> 1, owner1 |-> FALSE, owner2 |-> FALSE],
     [acres |-> 1, owner1 |-> TRUE, owner2 |-> FALSE],
     [acres |-> 2, owner1 |-> TRUE, owner2 |-> TRUE]}

parse_parcel(span, shape) ==
    [span |-> span, acres |-> shape.acres,
     owner1 |-> shape.owner1, owner2 |-> shape.owner2]

Features ==
    {parse_parcel(sp, sh) :
        sp \in {Null} \cup {Some(s) : s \in GisSpans}, sh \in FeatureShapes}

Feeds == UNION {[1..n -> Features] : n \in 0..MaxFeatures}

NothingSeen == [s \in GisSpans |-> Null]

GisStart(parcels, owners, tax) ==
    [parcels |-> parcels, owners |-> owners, tax |-> tax,
     seen |-> NothingSeen, imported |-> 0, skipped |-> 0]

\* db.query(Parcel).filter(Parcel.span == span).first()
existing(parcels, span) == {p \in parcels : p.span = span}

\* the body of the loop over the features of a page
ImportFeature(st, parcel_data) ==
    IF IsNull(parcel_data.span) THEN st
    ELSE
      LET span == Val(parcel_data.span)
          met == [st.seen EXCEPT ![span] = Some(parcel_data.acres)]
      IN  IF existing(st.parcels, span) # {}
          THEN [st EXCEPT !.skipped = @ + 1, !.seen = met]
          ELSE
            LET id == Cardinality(st.parcels) + 1
                parcel == [id |-> id, span |-> span, acres |-> parcel_data.acres]
            IN  [st EXCEPT
                   !.parcels = @ \cup {parcel},
                   !.owners = @ \cup
                       (IF parcel_data.owner1
                        THEN {[parcel_id |-> id, is_primary |-> TRUE]} ELSE {})
                       \cup
                       (IF parcel_data.owner2
                        THEN {[parcel_id |-> id, is_primary |-> FALSE]} ELSE {}),
                   !.tax = @ \cup {[parcel_id |-> id, tax_year |-> 2024]},
                   !.imported = @ + 1,
                   !.seen = met]

RECURSIVE ImportFeatures(_, _)
ImportFeatures(st, features) ==
    IF features = <<>> THEN st
    ELSE ImportFeatures(ImportFeature(st, Head(features)), Tail(features))

\* one call of import_parcels(dry_run, test_only); the features fit one
\* page, which is committed as a whole
ImportParcels(dry_run, test_only, features) ==
    LET st == ImportFeatures(GisStart(gisParcels, gisOwners, gisTaxStatus),
                             features)
    IN  IF test_only \/ dry_run
        THEN /\ gisLast' = [mode |-> IF test_only THEN "test" ELSE "dry_run",
                            seen |-> NothingSeen, imported |-> 0, skipped |-> 0]
             /\ UNCHANGED <<gisParcels, gisOwners, gisTaxStatus, outsideGis>>
        ELSE /\ gisParcels' = st.parcels
             /\ gisOwners' = st.owners
             /\ gisTaxStatus' = st.tax
             /\ gisLast' = [mode |-> "import", seen |-> st.seen,
                            imported |-> st.imported, skipped |-> st.skipped]
             /\ UNCHANGED outsideGis

\* ---------------------------------------------------------------------
\* Front Porch Forum people: parse_fpf_emails.get_or_create_person
\* ---------------------------------------------------------------------
\* the arguments of the calls: the author of a post, with or without an
\* email, a road and a town, and the date of the digest
FpfArgs ==
    [name : {"Ann Lee", "Bob Ray"},
     email : {Null, Some("ann@x.org"), Some("bob@x.org")},
     road : {Null, Some("Main St"), Some("Hill Rd")},
     town : {Null, Some("Warren")},
     published_at : {1, 2}]
MaxCalls == 2

\* a lookup that never finds anyone
by_email_never(people, email) == {}

\* select(FPFPerson).where(FPFPerson.email == email)
by_email(people, email) == {p \in people : p.email = email}

\* select(FPFPerson).where(name == name), narrowed by road and by town
\* when the call carries them
by_name(people, name, road, town) ==
    {p \in people : /\ p.name = name
                    /\ (IsNull(road) \/ p.road = road)
                    /\ (IsNull(town) \/ p.town = town)}

\* if published_at > person.last_seen_at: person.last_seen_at = published_at
seen_at(person, published_at) ==
    [person EXCEPT !.last_seen_at = IF published_at > @ THEN published_at ELSE @]

Returned(people, person) ==
    [people |-> people, person |-> Some(person.id), error |-> "none"]
Raised(people, error) ==
    [people |-> people, person |-> Null, error |-> error]

\* FPFPerson(name=..., email=..., ...); session.add; session.flush, which the
\* unique constraint on email refuses when the email is taken
create_person(people, name, email, road, town, published_at) ==
    LET person == [id |-> Cardinality(people) + 1, name |-> name,
                   email |-> email, road |-> road, town |-> town,
                   first_seen_at |-> published_at,
                   last_seen_at |-> published_at]
    IN  IF ~IsNull(email) /\ \E p \in people : p.email = email
        THEN Raised(people, "IntegrityError")
        ELSE Returned(people \cup {person}, person)

get_or_create_person(people, name, email, road, town, published_at) ==
    LET emailed == IF IsNull(email) THEN {} ELSE by_email(people, email)
        named == by_name(people, name, road, town)
    IN  IF Cardinality(emailed) > 1 \/ (emailed = {} /\ Cardinality(named) > 1)
        THEN Raised(people, "MultipleResultsFound")
        ELSE IF emailed # {}
        THEN LET person == CHOOSE p \in emailed : TRUE
                 touched == seen_at(person, published_at)
             IN  Returned((people \ {person}) \cup {touched}, touched)
        ELSE IF named # {}
        THEN LET person == CHOOSE p \in named : TRUE
                 mailed == IF ~IsNull(email) /\ IsNull(person.email)
                           THEN [person EXCEPT !.email = email] ELSE person
                 touched == seen_at(mailed, published_at)
             IN  Returned((people \ {person}) \cup {touched}, touched)
        ELSE create_person(people, name, email, road, town, published_at)

GetOrCreatePerson(name, email, road, town, published_at) ==
    LET out == get_or_create_person(fpfPeople, name, email, road, town,
                                    published_at)
    IN  /\ fpfCalls < MaxCalls
        /\ fpfCalls' = fpfCalls + 1
        /\ fpfPeople' = out.people
        /\ fpfLast' = [name |-> name, email |-> email, road |-> road,
                       town |-> town, published_at |-> published_at,
                       person |-> out.person, error |-> out.error,
                       created |-> Cardinality(out.people) > Cardinality(fpfPeople)]
        /\ UNCHANGED outsideFpf

\* ---------------------------------------------------------------------
\* Spatial matching: import_str.match_listing_to_parcel
\* ---------------------------------------------------------------------
\* distances are whole metres on a grid of 5 m, confidences thousandths
MaxSteps == 42
Distances == {5 * k : k \in 0..MaxSteps}

\* what a call meets: coordinates given or not, a parcel polygon around
\* the point or none, and the distance to the nearest parcel centroid
\* (none when no parcel has coordinates)
MatchInputs ==
    {in \in [located : BOOLEAN, contained : BOOLEAN,
             nearest : {Null} \cup {Some(d) : d \in Distances}] :
        \* what is never looked at is left out of the variety
        /\ ~in.located => ~in.contained /\ IsNull(in.nearest)
        /\ in.contained => in.nearest \in {Null, Some(0), Some(5 * MaxSteps)}}

NoMatch == [parcel_id |-> Null, method |-> None, confidence |-> Null]

\* the confidence without its floor
confidence_unclamped(distance_m) == 950 - 5 * distance_m

\* max(0.45, 0.95 - (result.distance_m / 200))
confidence(distance_m) ==
    IF 450 >= 950 - 5 * distance_m THEN 450 ELSE 950 - 5 * distance_m

match_listing_to_parcel(in) ==
    IF ~in.located THEN NoMatch
    ELSE IF in.contained
    THEN [parcel_id |-> Some("around"), method |-> "spatial",
          confidence |-> Some(950)]
    ELSE IF ~IsNull(in.nearest) /\ Val(in.nearest) <= 200
    THEN [parcel_id |-> Some("nearest"), method |-> "spatial_centroid",
          confidence |-> Some(confidence(Val(in.nearest)))]
    ELSE NoMatch

\* one call; the call before it is kept for comparison
MatchListing(in) ==
    /\ matchCalls' =
          (IF matchCalls = <<>> THEN <<>> ELSE <<matchCalls[Len(matchCalls)]>>)
          \o <<[in |-> in, out |-> match_listing_to_parcel(in)]>>
    /\ UNCHANGED outsideMatch

\* ---------------------------------------------------------------------
\* Owner-name parsing of the schemas: schemas.parse_owner_name, which
\* returns the people and the organization of one owner string
\* ---------------------------------------------------------------------
\* the words owner strings are made of, and their longest length
MaxTokens == 4
OwnerStrings ==
    LET words ==
          {<<"S", "M", "I", "T", "H">>, <<"J", "O", "H", "N">>, <<"M">>, W_AMP,
           <<"J", "R">>, <<"L", "L", "C">>, <<"I", "N", "C">>,
           <<"T", "R", "U", "S", "T">>, <<"t", "r", "u", "s", "t">>,
           <<"R", "E", "V", "O", "C", "A", "B", "L", "E">>,
           <<"E", "S", "T", "A", "T", "E">>}
    IN  UNION {[1..n -> words] : n \in 0..MaxTokens}

\* the words of a string at which
\* ^([A-Z]+)\s+([A-Z]+)(?:\s+[A-Z]\.?)?\s+(?:REVOCABLE\s+)?TRUST matches
trust_match(tokens) ==
    LET AZ == {"A", "B", "C", "D", "E", "F", "G", "H", "I", "J", "K", "L", "M",
               "N", "O", "P", "Q", "R", "S", "T", "U", "V", "W", "X", "Y", "Z"}
        word(i) == i <= Len(tokens) /\ tokens[i] # <<>>
                   /\ \A k \in 1..Len(tokens[i]) : tokens[i][k] \in AZ
        initial(i) == i <= Len(tokens)
                      /\ (\/ Len(tokens[i]) = 1 /\ tokens[i][1] \in AZ
                          \/ Len(tokens[i]) = 2 /\ tokens[i][1] \in AZ
                             /\ tokens[i][2] = ".")
        revocable(i) == i <= Len(tokens)
                        /\ tokens[i] = <<"R", "E", "V", "O", "C", "A", "B", "L", "E">>
        trust(i) == i <= Len(tokens) /\ Len(tokens[i]) >= 5
                    /\ SubSeq(tokens[i], 1, 5) = <<"T", "R", "U", "S", "T">>
        rest(i) == trust(i) \/ (revocable(i) /\ trust(i + 1))
    IN  word(1) /\ word(2) /\ (rest(3) \/ (initial(3) /\ rest(4)))

RECURSIVE split_amp(_)
\* name.split("&"), each part split into its tokens
split_amp(tokens) ==
    IF \E i \in 1..Len(tokens) : tokens[i] = W_AMP
    THEN <<BeforeAmp(tokens)>>
         \o split_amp(SubSeq(tokens, Len(BeforeAmp(tokens)) + 2, Len(tokens)))
    ELSE <<tokens>>

\* the person dict built for part i (counted from 0) of the string
person_of(i, tokens, people) ==
    IF i = 0
    THEN IF Len(tokens) >= 2
         THEN IF Len(tokens) >= 3 /\ upper(tokens[2]) \in SUFFIXES
              THEN [first_name |-> Some(title(tokens[3])),
                    last_name |-> Some(title(tokens[1])),
                    suffix |-> Some(upper(tokens[2]))]
              ELSE [first_name |-> Some(title(tokens[2])),
                    last_name |-> Some(title(tokens[1])),
                    suffix |-> Null]
         ELSE [first_name |-> Null, last_name |-> Null, suffix |-> Null]
    ELSE [first_name |-> Some(title(tokens[1])),
          last_name |-> IF people # <<>> THEN people[1].last_name ELSE Null,
          suffix |-> Null]

RECURSIVE parse_parts(_, _, _)
\* "for i, part in enumerate(parts)": parts without tokens are passed
\* over, a person with a first name is appended
parse_parts(parts, i, people) ==
    IF i >= Len(parts) THEN people
    ELSE LET tokens == parts[i + 1]
             person == person_of(i, tokens, people)
         IN  parse_parts(parts, i + 1,
                 IF tokens = <<>> \/ IsNull(person.first_name) THEN people
                 ELSE Append(people, person))

schemas_parse_owner_name(name) ==
    IF search(LLC_PATTERN, name)
    THEN [people |-> <<>>, org |-> Some([name |-> name, type |-> "llc"])]
    ELSE IF search(CORP_PATTERN, name)
    THEN [people |-> <<>>, org |-> Some([name |-> name, type |-> "corporation"])]
    ELSE IF search(TRUST_PATTERN, name)
    THEN [people |-> IF trust_match(name)
                     THEN <<[first_name |-> Some(title(name[2])),
                             last_name |-> Some(title(name[1])),
                             suffix |-> Null]>>
                     ELSE <<>>,
          org |-> Some([name |-> name, type |-> "trust"])]
    ELSE [people |-> parse_parts(split_amp(name), 0, <<>>), org |-> Null]

\* one call of parse_owner_name(raw_name)
ParseOwnerName ==
    /\ IsNull(ownerCall.out)
    /\ ownerCall' = [ownerCall EXCEPT
                       !.out = Some(schemas_parse_owner_name(ownerCall.raw_name))]
    /\ UNCHANGED outsideOwner

\* ---------------------------------------------------------------------
\* SPAN matching: transformations.match_by_span over the table that
\* import_pttr.build_span_lookup makes
\* ---------------------------------------------------------------------
\* SPAN texts as the sources write them: with hyphens, spaces, dots or
\* slashes between the groups, in either letter case
SpanTexts ==
    {<<"1", "2", "-", "3", "A">>, <<"1", "2", "3", "A">>,
     <<"1", "2", "-", "3", "a">>, <<" ", "1", "2", " ", "3", "A", "\t">>,
     <<"1", "2", ".", "3", "A">>, <<"1", "2", "/", "3", "A">>,
     <<"1", "2", "-", "4", "A">>, <<"1", "2", "4", "a">>}

\* the digits and letters of a SPAN text, upper-cased: what tells one
\* SPAN from another
Alphanumerics(span) ==
    SelectSeq(upper(span), LAMBDA c : c \notin Ws \cup {"-", ".", "/"})

\* span.strip().upper().replace("-", "").replace(" ", "")
normalize_span(span) ==
    LET inner == {i \in 1..Len(span) : span[i] \notin Ws}
        stripped ==
            IF inner = {} THEN <<>>
            ELSE SubSeq(span, CHOOSE i \in inner : \A j \in inner : i <= j,
                              CHOOSE i \in inner : \A j \in inner : i >= j)
    IN  SelectSeq(upper(stripped), LAMBDA c : c # "-" /\ c # " ")

\* {normalized SPAN: parcel id} over the Parcels that have a SPAN
build_span_lookup(parcels) ==
    {<<normalize_span(parcels[i]), i>> :
        i \in {j \in DOMAIN parcels : parcels[j] # <<>>}}

match_by_span(span, span_to_parcel_id) ==
    LET clean_span == normalize_span(span)
        found == {e \in span_to_parcel_id : e[1] = clean_span}
    IN  IF found # {}
        THEN [parcel_id |-> Some((CHOOSE e \in found : TRUE)[2]),
              method |-> "span", confidence |-> 1000]
        ELSE [parcel_id |-> Null, method |-> None, confidence |-> 0]

\* the matching step of the PTTR transform for one bronze record:
\* "if bronze.span: match = match_by_span(bronze.span, span_lookup)"
MatchBySpan ==
    /\ IsNull(spanCall.out)
    /\ ~IsNull(spanCall.span) /\ Val(spanCall.span) # <<>>
    /\ spanCall' = [spanCall EXCEPT !.out =
                       Some(match_by_span(Val(spanCall.span),
                                          build_span_lookup(spanCall.parcels)))]
    /\ UNCHANGED outsideSpan

\* the tables of the GIS import and of the forum empty, no call made
StoresIdle ==
    /\ gisParcels = {}
    /\ gisOwners = {}
    /\ gisTaxStatus = {}
    /\ gisLast = [mode |-> "none", seen |-> NothingSeen,
                  imported |-> 0, skipped |-> 0]
    /\ fpfPeople = {}
    /\ fpfLast = [name |-> "", email |-> Null, road |-> Null, town |-> Null,
                  published_at |-> 0, person |-> Null, error |-> "none",
                  created |-> FALSE]
    /\ fpfCalls = 0
    /\ matchCalls = <<>>

SpanIdle == spanCall = [span |-> Null, parcels |-> <<>>, out |-> Null]

OwnerIdle == ownerCall = [raw_name |-> <<>>, out |-> Null]

\* ------------------------------------------------------------------------
\* parse_fpf_emails.main: one session for the whole run, one step per file
\* ------------------------------------------------------------------------
MaxEmails == 3
FpfCommitEvery == 100

\* what decides the fate of an email file: whether json.load reads it, its
\* gmail id, the issue number and the forward mark of its subject, and its
\* body ("broken_post": a post without author_name, which raises KeyError)
EmailFiles ==
    [readable : {TRUE}, gmail_id : {"g1", "g2", "g3"},
     issue_number : {Null, Some(1)}, is_forward : BOOLEAN,
     body : {"none", "post", "broken_post"}]
    \cup {[readable |-> FALSE, gmail_id |-> "g1", issue_number |-> Null,
           is_forward |-> FALSE, body |-> "none"]}

NoRows == [issues |-> {}, posts |-> {}, people |-> {}]

Rows(a, b) == [issues |-> a.issues \cup b.issues,
               posts |-> a.posts \cup b.posts,
               people |-> a.people \cup b.people]

\* session.rollback(): what was added since the last commit is gone
rollback(sess) == NoRows

\* import_email: [raised, issues_created, posts_created, sess], sess the
\* rows pending afterwards; seen is what the queries of the session return
import_email(sess, email_data) ==
    LET seen == Rows(mailDb, sess)
        nothing == [raised |-> FALSE, issues_created |-> 0,
                    posts_created |-> 0, sess |-> sess]
        issue == [gmail_id |-> email_data.gmail_id,
                  issue_number |-> email_data.issue_number]
        with_issue == [sess EXCEPT !.issues = @ \cup {issue}]
    IN  IF \E x \in seen.issues : x.gmail_id = email_data.gmail_id
        THEN nothing
        ELSE IF email_data.is_forward THEN nothing
        ELSE IF /\ ~IsNull(email_data.issue_number)
                /\ \E x \in seen.issues :
                      x.issue_number = email_data.issue_number
        THEN nothing
        ELSE CASE email_data.body = "none" ->
                    [raised |-> FALSE, issues_created |-> 1,
                     posts_created |-> 0, sess |-> with_issue]
               [] email_data.body = "post" ->
                    [raised |-> FALSE, issues_created |-> 1,
                     posts_created |-> 1,
                     sess |-> [with_issue EXCEPT
                                 !.posts = @ \cup {email_data.gmail_id},
                                 !.people = @ \cup ({"author"} \ seen.people)]]
               [] email_data.body = "broken_post" ->
                    [raised |-> TRUE, issues_created |-> 0,
                     posts_created |-> 0, sess |-> with_issue]

\* one iteration of "for i, filename in enumerate(email_files, 1)"
MainEmail(email_data) ==
    /\ mailPc = "loop"
    /\ mailRun.i < MaxEmails
    /\ LET i == mailRun.i + 1
           out == import_email(mailSess, email_data)
       IN  IF ~email_data.readable \/ out.raised THEN
               \* except Exception: rollback, errors += 1
               /\ mailSess' = rollback(IF email_data.readable
                                       THEN out.sess ELSE mailSess)
               /\ mailRun' = [mailRun EXCEPT !.i = i, !.errors = @ + 1]
               /\ UNCHANGED mailDb
           ELSE
               /\ mailRun' = [mailRun EXCEPT
                                 !.i = i,
                                 !.total_issues = @ + out.issues_created,
                                 !.total_posts = @ + out.posts_created]
               /\ IF i % FpfCommitEvery = 0
                  THEN /\ mailDb' = Rows(mailDb, out.sess)
                       /\ mailSess' = NoRows
                  ELSE /\ mailSess' = out.sess
                       /\ UNCHANGED mailDb
    /\ UNCHANGED <<mailPc, outsideMail>>

\* session.commit() after the last file
MainEnd ==
    /\ mailPc = "loop"
    /\ mailDb' = Rows(mailDb, mailSess)
    /\ mailSess' = NoRows
    /\ mailPc' = "done"
    /\ UNCHANGED <<mailRun, outsideMail>>

\* main() entered, the tables empty, no file read yet
MailIdle ==
    /\ mailDb = NoRows
    /\ mailSess = NoRows
    /\ mailRun = [i |-> 0, total_issues |-> 0, total_posts |-> 0, errors |-> 0]
    /\ mailPc = "loop"

LaterIdle ==
    /\ StoresIdle
    /\ SpanIdle
    /\ OwnerIdle
    /\ MailIdle

EmptyStore ==
    /\ parcelIn = [p \in ParcelIds |-> [descprop |-> Null, tax |-> Null]]
    /\ listingParcel = [l \in ListingIds |-> None]
    /\ dwellings = {}

RevIdle ==
    /\ review = [l \in ListingIds |-> Null]
    /\ lastReq = NoRequest
    /\ requests = 0
    /\ sameAsLast = FALSE

TrIdle ==
    /\ bronzeStr = {}
    /\ bronzePttr = {}
    /\ strListings = {}
    /\ propertyTransfers = {}
    /\ trRuns = 0
    /\ trStats = ZeroTrStats

ImpIdle ==
    /\ impInput = [owner_a |-> Null, owner_b |-> Null, condo |-> FALSE]
    /\ impDb = EmptyTables
    /\ impSess = EmptyTables
    /\ impPc = "idle"
    /\ impNext = 0
    /\ person_cache = {}
    /\ org_cache = {}
    /\ impStats = ZeroImpStats
    /\ impStart = [db |-> EmptyTables, after |-> "none", clear |-> FALSE]
    /\ impOutcome = "none"
    /\ impRuns = 0

InfIdle ==
    /\ infPc = [r \in Runners |-> "idle"]
    /\ infReset = [r \in Runners |-> FALSE]
    /\ infRun = [r \in Runners |-> 0]
    /\ infTodo = [r \in Runners |-> <<>>]
    /\ infPending = [r \in Runners |-> {}]
    /\ infStats = [r \in Runners |-> ZeroStats]
    /\ infStart = [r \in Runners |-> [dw |-> {}, after |-> "none"]]
    /\ lastOutcome = "none"
    /\ runs = 0

\* every sample text, with and without a dwelling-count pattern
AllDescprops ==
    NoPatternDescprops \cup
    {Some(T_DWL), Some(T_2dwls),
     Some(<<"&", " ", "M", "F">>),
     Some(<<"&", "D", "W", "L", ".">>),
     Some(<<"&", " ", "0", " ", "D", "W", "L", "S">>),
     Some(<<"&", "3", "D", "W", "L">>),
     Some(<<"&", "\t", "1", "2", " ", "D", "W", "L", "S">>)}

ClsIdle ==
    /\ dwl = [dwelling_use |-> None, is_owner_occupied |-> None,
              has_separate_entrance |-> TRUE, has_sleeping_facilities |-> TRUE,
              has_cooking_facilities |-> TRUE, has_sanitary_facilities |-> TRUE,
              is_year_round_habitable |-> TRUE]
    /\ modelTax = Unset
    /\ schemaTax = Unset
    /\ descIn = Null
    /\ descCount = Null

InitClassify ==
    /\ LaterIdle
    /\ dwl \in DwellingFacts
    /\ modelTax = Unset
    /\ schemaTax = Unset
    /\ descIn \in AllDescprops
    /\ descCount = Null
    /\ RevIdle
    /\ TrIdle
    /\ ImpIdle
    /\ EmptyStore
    /\ InfIdle

\* reading the property Dwelling.tax_classification
ReadTaxClassification ==
    /\ modelTax = Unset
    /\ modelTax' = tax_classification(dwl)
    /\ UNCHANGED <<dwl, schemaTax, descIn, descCount, outsideCls>>

\* calling DwellingBase.get_tax_classification()
CallGetTaxClassification ==
    /\ schemaTax = Unset
    /\ schemaTax' = get_tax_classification(dwl)
    /\ UNCHANGED <<dwl, modelTax, descIn, descCount, outsideCls>>

\* calling parse_descprop_dwelling_count(descprop)
CallParseDescprop ==
    /\ descCount = Null
    /\ descCount' = Some(parse_descprop_dwelling_count(descIn))
    /\ UNCHANGED <<dwl, modelTax, schemaTax, descIn, outsideCls>>

NextClassify ==
    \/ ReadTaxClassification
    \/ CallGetTaxClassification
    \/ CallParseDescprop

SpecClassify == InitClassify /\ [][NextClassify]_vars


\* inputs of the inference runs: the first parcel carries every mix of
\* signals, the second has no description pattern and no tax signal
InferDescprops == {Null, Some(T_5AC), Some(T_DWL), Some(T_2dwls)}

TaxRows ==
    {Null,
     Some([homestead_filed |-> FALSE, housesite_value |-> Some(0)]),
     Some([homestead_filed |-> TRUE, housesite_value |-> Null]),
     Some([homestead_filed |-> FALSE, housesite_value |-> Some(150000)]),
     Some([homestead_filed |-> TRUE, housesite_value |-> Some(150000)])}

InitInfer ==
    /\ LaterIdle
    /\ ClsIdle
    /\ parcelIn \in
          {f \in [ParcelIds -> [descprop : InferDescprops, tax : TaxRows]] :
              /\ f["p2"].descprop = Some(T_5AC)
              /\ ~HomesteadFiled(f["p2"].tax)
              /\ ~HousesitePositive(f["p2"].tax)}
    /\ listingParcel \in [ListingIds -> ParcelIds \cup {None}]
    /\ dwellings = {}
    /\ InfIdle
    /\ RevIdle
    /\ TrIdle
    /\ ImpIdle

\* runs one after the other, as a single operator starts them
NextInfer ==
    \E r \in {"r1"} :
        \/ \E reset \in BOOLEAN : InferStart(r, reset)
        \/ InferParcel(r)
        \/ InferCommit(r)
        \/ InferFail(r)

SpecInfer == InitInfer /\ [][NextInfer]_vars

\* inputs of the review ledger: a parcel described with two dwellings or
\* none, and listings matched to a parcel or to none
LedgerDescprops == {Some(T_5AC), Some(T_2dwls)}

\* the payloads the review requests carry
DwellingChoices ==
    {Null, Some(UnknownDwelling)} \cup {Some(d.id) : d \in dwellings}
ReasonChoices == {Null, Some("duplicate"), Some("no_reason_given")}

InitLedger ==
    /\ LaterIdle
    /\ ClsIdle
    /\ parcelIn \in {f \in [ParcelIds -> [descprop : LedgerDescprops, tax : {Null}]] :
                        f["p2"].descprop = Some(T_5AC)}
    /\ listingParcel \in {f \in [ListingIds -> ParcelIds \cup {None}] : f[1] = "p1"}
    /\ dwellings = {}
    /\ InfIdle
    /\ RevIdle
    /\ TrIdle
    /\ ImpIdle

\* inference runs within one session of ledger requests
MaxLedgerRuns == 1

NextLedger ==
    \/ \E r \in {"r1"} :
          \/ \E reset \in BOOLEAN : runs < MaxLedgerRuns /\ InferStart(r, reset)
          \/ InferParcel(r)
          \/ InferCommit(r)
    \/ \E l \in ListingIds \cup {UnknownListing} :
          \* ledger requests arrive between the batch runs
          /\ \A r \in Runners : ~Running(r)
          /\ \/ \E d \in DwellingChoices : UpdateStrReview(l, "confirm", d, Null)
             \/ \E x \in ReasonChoices : UpdateStrReview(l, "reject", Null, x)
             \/ UpdateStrReview(l, "skip", Null, Null)

SpecLedger == InitLedger /\ [][NextLedger]_vars

\* bronze tables of every make-up; the silver tables start empty
InitTransform ==
    /\ LaterIdle
    /\ ClsIdle
    /\ EmptyStore
    /\ InfIdle
    /\ RevIdle
    /\ ImpIdle
    /\ \E f \in [StrBronzeIds -> StrBronzeShapes] :
          bronzeStr = {[id |-> b, api_source |-> f[b].api_source,
                        located |-> f[b].located, quality |-> f[b].quality] :
                       b \in StrBronzeIds}
    /\ \E f \in [PttrBronzeIds -> PttrBronzeShapes] :
          bronzePttr = {[id |-> b, span_known |-> f[b].span_known,
                         quality |-> f[b].quality] : b \in PttrBronzeIds}
    /\ strListings = {}
    /\ propertyTransfers = {}
    /\ trRuns = 0
    /\ trStats = ZeroTrStats

NextTransform ==
    \/ TransformStr
    \/ TransformAirroi
    \/ TransformPttr

SpecTransform == InitTransform /\ [][NextTransform]_vars

\* the owner names the input rows of the import carry
ImportOwners ==
    {Null, Some(N_SMITH_JOHN), Some(N_MAD_RIVER_LLC), Some(N_mad_river_llc)}

InitImport ==
    /\ LaterIdle
    /\ ClsIdle
    /\ EmptyStore
    /\ InfIdle
    /\ RevIdle
    /\ TrIdle
    /\ impInput \in [owner_a : ImportOwners, owner_b : ImportOwners,
                     condo : BOOLEAN]
    /\ impDb = EmptyTables
    /\ impSess = EmptyTables
    /\ impPc = "idle"
    /\ impNext = 0
    /\ person_cache = {}
    /\ org_cache = {}
    /\ impStats = ZeroImpStats
    /\ impStart = [db |-> EmptyTables, after |-> "none", clear |-> FALSE]
    /\ impOutcome = "none"
    /\ impRuns = 0

NextImport ==
    \/ \E clear \in BOOLEAN : ImportStart(clear)
    \/ ImportSpan
    \/ ImportFinish
    \/ ImportFail

SpecImport == InitImport /\ [][NextImport]_vars

\* every table empty and nothing run yet
InitEmpty ==
    /\ LaterIdle
    /\ ClsIdle
    /\ EmptyStore
    /\ InfIdle
    /\ RevIdle
    /\ TrIdle
    /\ ImpIdle

NextParcels ==
    \/ \E features \in Feeds : ImportParcels(FALSE, FALSE, features)
    \/ \E test_only \in BOOLEAN : ImportParcels(TRUE, test_only, <<>>)
    \/ ImportParcels(FALSE, TRUE, <<>>)

SpecParcels == InitEmpty /\ [][NextParcels]_vars

NextPeople ==
    \E a \in FpfArgs :
        GetOrCreatePerson(a.name, a.email, a.road, a.town, a.published_at)

SpecPeople == InitEmpty /\ [][NextPeople]_vars

NextMail ==
    \/ \E email_data \in EmailFiles : MainEmail(email_data)
    \/ MainEnd

SpecMail == InitEmpty /\ [][NextMail]_vars

NextMatch == \E in \in MatchInputs : MatchListing(in)

SpecMatch == InitEmpty /\ [][NextMatch]_vars

\* a bronze record with a SPAN of any spelling, or with none, and two
\* Parcels of different SPANs
InitSpan ==
    /\ ClsIdle
    /\ EmptyStore
    /\ InfIdle
    /\ RevIdle
    /\ TrIdle
    /\ ImpIdle
    /\ StoresIdle
    /\ OwnerIdle
    /\ MailIdle
    /\ spanCall \in
          {c \in [span : {Null, Some(<<>>)} \cup {Some(t) : t \in SpanTexts},
                  parcels : [1..2 -> SpanTexts], out : {Null}] :
              Alphanumerics(c.parcels[1]) # Alphanumerics(c.parcels[2])}

SpecSpan == InitSpan /\ [][MatchBySpan]_vars

\* an owner string of up to MaxTokens words, not parsed yet
InitOwner ==
    /\ ClsIdle
    /\ EmptyStore
    /\ InfIdle
    /\ RevIdle
    /\ TrIdle
    /\ ImpIdle
    /\ StoresIdle
    /\ SpanIdle
    /\ MailIdle
    /\ ownerCall \in [raw_name : OwnerStrings, out : {Null}]

SpecOwner == InitOwner /\ [][ParseOwnerName]_vars

\* two operators start the script without --reset against the same store:
\* each call has its own session, and a session reads what is committed
\* and what it has itself pending
InitRace ==
    /\ LaterIdle
    /\ ClsIdle
    /\ parcelIn \in {f \in [ParcelIds -> [descprop : LedgerDescprops, tax : {Null}]] :
                        f["p2"].descprop = Some(T_5AC)}
    /\ listingParcel \in [ListingIds -> ParcelIds \cup {None}]
    /\ dwellings = {}
    /\ InfIdle
    /\ RevIdle
    /\ TrIdle
    /\ ImpIdle

NextRace ==
    \E r \in Runners :
        \/ InferStart(r, FALSE)
        \/ InferParcel(r)
        \/ InferCommit(r)

SpecRace == InitRace /\ [][NextRace]_vars

\* The classification table of the specification (section 4.5)
TableClass(use, occ) ==
    CASE use = "full_time_residence" /\ occ = "True" -> "HOMESTEAD"
      [] use = "full_time_residence" /\ occ = "False" -> "NHS_NONRESIDENTIAL"
      [] use = "full_time_residence" /\ occ = None -> None
      [] use \in {"short_term_rental", "second_home", "vacant"} -> "NHS_RESIDENTIAL"
      [] use = "commercial" -> "NHS_NONRESIDENTIAL"
      [] OTHER -> None

\* C8: for every (use, is_owner_occupied) pair the derived tax
\* classification of a Dwelling equals the specification table, in the ORM
\* property and in the schema method alike.
C8_ClassificationMatchesTable ==
    dwl.dwelling_use # None =>
        /\ modelTax # Unset =>
              modelTax = TableClass(dwl.dwelling_use, dwl.is_owner_occupied)
        /\ schemaTax # Unset =>
              schemaTax = TableClass(dwl.dwelling_use, dwl.is_owner_occupied)

\* C9: a Dwelling whose year-round-habitable flag is false never has a tax
\* classification, whatever its use and is_owner_occupied are.
C9_NotYearRoundNeverClassified ==
    ~dwl.is_year_round_habitable =>
        /\ modelTax \in {Unset, None}
        /\ schemaTax \in {Unset, None}


\* ---- claims about the inference engine ----

\* the signals of a parcel, read off its inputs
DescSignal(p) ==
    parcelIn[p].descprop \notin
        NoPatternDescprops \cup {Some(<<"&", " ", "0", " ", "D", "W", "L", "S">>)}
FilingSignal(p) ==
    parcelIn[p].tax # Null /\ parcelIn[p].tax[1].homestead_filed
HousesiteSignal(p) ==
    /\ parcelIn[p].tax # Null
    /\ parcelIn[p].tax[1].housesite_value # Null
    /\ parcelIn[p].tax[1].housesite_value[1] > 0
ListingSignal(p) == \E l \in ListingIds : listingParcel[l] = p

\* every Dwelling row, committed or still pending in a session
AllDwellings == dwellings \cup UNION {infPending[r] : r \in Runners}

\* C3: a Parcel whose description carries no dwelling-count pattern, whose
\* tax status has neither a true filing flag nor a positive housesite value
\* and which has no matched rental listing gets zero Dwellings.
C3_NoSignalNoDwelling ==
    \A p \in ParcelIds :
        (/\ parcelIn[p].descprop \in NoPatternDescprops
         /\ ~FilingSignal(p)
         /\ ~HousesiteSignal(p)
         /\ ~ListingSignal(p))
        => \A d \in AllDwellings : d.parcel_id # p

\* a completed run that skipped a signal-less parcel and created Dwellings
\* for another one
C3_Witness ==
    \E r \in Runners, p \in ParcelIds :
        /\ infPc[r] = "done"
        /\ parcelIn[p].descprop \in NoPatternDescprops
        /\ ~FilingSignal(p) /\ ~HousesiteSignal(p) /\ ~ListingSignal(p)
        /\ infStats[r].skipped_no_signal >= 1
        /\ infStats[r].dwellings_created >= 1

\* C5: a run without reset over a store on which the previous run completed
\* creates no Dwelling: it skips every Parcel that has a Dwelling and leaves
\* the set of Dwellings as it found it.
C5_RerunCreatesNothing ==
    \A r \in Runners :
        (/\ infPc[r] \in {"loop", "done"}
         /\ ~infReset[r]
         /\ infStart[r].after = "completed")
        => /\ infPending[r] = {}
           /\ infStats[r].dwellings_created = 0
           /\ infPc[r] = "done" =>
                 /\ dwellings = infStart[r].dw
                 /\ infStats[r].skipped_existing =
                        Cardinality({p \in ParcelIds :
                            \E d \in infStart[r].dw : d.parcel_id = p})

\* a completed re-run over a store that already held Dwellings
C5_Witness ==
    \E r \in Runners :
        /\ infPc[r] = "done"
        /\ ~infReset[r]
        /\ infStart[r].after = "completed"
        /\ infStart[r].dw # {}
        /\ infStats[r].skipped_existing >= 1

\* the tag and confidence of the strongest signal of a parcel
StrongestSignal(p) ==
    IF DescSignal(p) THEN <<"descprop", 95>>
    ELSE IF FilingSignal(p) THEN <<"homestead", 95>>
    ELSE IF HousesiteSignal(p) THEN <<"housesite", 85>>
    ELSE <<"str_listing", 80>>

\* C10: the data-source tag and the confidence of every Dwelling the engine
\* creates are those of the highest-priority signal that fires for its
\* Parcel, whichever weaker signals are present.
C10_StrongestSignalTags ==
    \A d \in AllDwellings :
        <<d.data_source, d.source_confidence>> = StrongestSignal(d.parcel_id)

\* a Dwelling tagged by the filing flag on a parcel that also has a housesite
\* value and a matched listing
C10_Witness ==
    \E d \in dwellings :
        /\ d.data_source = "homestead"
        /\ HousesiteSignal(d.parcel_id)
        /\ ListingSignal(d.parcel_id)

\* the status of the review entry of a listing; no row reads as unreviewed
StatusOf(l) == IF IsNull(review[l]) THEN "unreviewed" ELSE Val(review[l]).status

ReviewedStatuses == {"confirmed", "rejected", "skipped"}

\* the status each kind of request names
NamedStatus(action) ==
    IF action = "confirm" THEN "confirmed"
    ELSE IF action = "reject" THEN "rejected"
    ELSE "skipped"

\* a step that is a review request answered with success for listing l
SuccessfulRequestOn(l) ==
    /\ requests' = requests + 1
    /\ lastReq'.result = "ok"
    /\ lastReq'.listing = l

\* C1 as stated: a review entry whose status is confirmed, rejected or
\* skipped keeps that status under every later confirm, reject or skip
\* request; a status change only ever starts from unreviewed.
C1_ReviewedStatusIsTerminal ==
    [][\A l \in ListingIds :
          StatusOf(l) \in ReviewedStatuses => StatusOf(l)' = StatusOf(l)]_vars

\* C1, amended: update_str_review never puts an entry back to unreviewed,
\* and every successful confirm, reject or skip request sets the entry's
\* status to the one the request names, from whatever status it had; the
\* status changes in no other step.
C1_StatusFollowsLastRequest ==
    [][\A l \in ListingIds :
          /\ StatusOf(l) \in ReviewedStatuses => StatusOf(l)' \in ReviewedStatuses
          /\ SuccessfulRequestOn(l) => StatusOf(l)' = NamedStatus(lastReq'.action)
          /\ StatusOf(l)' # StatusOf(l) => SuccessfulRequestOn(l)]_vars

\* an entry that was confirmed and then skipped: the skip keeps the
\* dwelling reference only a confirm can have written
C1_Witness ==
    \E l \in ListingIds :
        /\ StatusOf(l) = "skipped"
        /\ ~IsNull(Val(review[l]).dwelling_id)
        /\ lastReq.listing = l
        /\ lastReq.action = "skip"
        /\ lastReq.result = "ok"

\* C2: right after a successful confirm request for listing L naming an
\* existing Dwelling D, the review entry of L is confirmed with dwelling
\* reference D and D's rental-listing link is L, whatever D held before.
C2_ConfirmLinksBothWays ==
    [][(/\ requests' = requests + 1
        /\ lastReq'.action = "confirm"
        /\ lastReq'.result = "ok")
       => /\ \E d \in dwellings : d.id = Val(lastReq'.dwelling_id)
          /\ ~IsNull(review'[lastReq'.listing])
          /\ Val(review'[lastReq'.listing]).status = "confirmed"
          /\ Val(review'[lastReq'.listing]).dwelling_id = lastReq'.dwelling_id
          /\ \A d \in dwellings' :
                d.id = Val(lastReq'.dwelling_id)
                => d.str_listing_id = lastReq'.listing]_vars

\* a confirm that overwrote the listing the engine had attached: the parcel
\* is described with several dwellings, the confirmed Dwelling now holds the
\* listing of the request and no Dwelling holds the parcel's other listing
C2_Witness ==
    /\ requests = 1
    /\ lastReq.action = "confirm"
    /\ lastReq.result = "ok"
    /\ \E d \in dwellings :
          /\ d.id = Val(lastReq.dwelling_id)
          /\ d.str_listing_id = lastReq.listing
          /\ d.data_source = "descprop"
          /\ \E l2 \in ListingIds \ {lastReq.listing} :
                /\ listingParcel[l2] = d.parcel_id
                /\ \A e \in dwellings : e.str_listing_id # l2

\* C6: after any sequence of completed transform runs over the same bronze
\* rows, every bronze rental-listing row and every bronze transfer row has
\* at most one silver row linked to it.
C6_AtMostOneSilverPerBronze ==
    /\ \A b \in bronzeStr :
          Cardinality({x \in strListings : x.bronze_id = b.id}) <= 1
    /\ \A b \in bronzePttr :
          Cardinality({x \in propertyTransfers : x.bronze_id = b.id}) <= 1

\* a listing transform has just run over a table that held silver rows of
\* an earlier run
C6_Witness ==
    /\ trRuns >= 2
    /\ trStats.source = "bronze_str_listings"
    /\ \E x \in strListings : x.id[1] < trRuns

RECURSIVE SumOver(_, _)
SumOver(f, S) ==
    IF S = {} THEN 0
    ELSE LET x == CHOOSE y \in S : TRUE IN f[x] + SumOver(f, S \ {x})

\* the numbers of Parcel, Dwelling, Person and Organization rows
RowCounts(db) ==
    <<SumOver(db.parcels, Spans), SumOver(db.dwellings, Spans),
      SumOver(db.people, PersonKeys), SumOver(db.organizations, OrgNames)>>

\* C4: a second import_all over the same rows, started after the first has
\* completed and without clearing, leaves the numbers of Parcel, Dwelling,
\* Person and Organization rows as the first run left them.
C4_SecondImportKeepsCounts ==
    (impPc = "done" /\ impStart.after = "completed" /\ ~impStart.clear)
    => RowCounts(impDb) = RowCounts(impStart.db)

\* C7: when import_all fails part-way and is run again over the same rows,
\* the second run ends with the Parcels and Dwellings of one run that never
\* failed: one Parcel per SPAN and one Dwelling per input row.
C7_RerunAfterFailureEndsAsCleanRun ==
    (impPc = "done" /\ impRuns = 2 /\ impStart.after = "failed"
        /\ ~impStart.clear)
    => /\ impDb.parcels = [s \in Spans |-> 1]
       /\ impDb.dwellings = [s \in Spans |-> Len(span_groups(s))]

\* ---- claims about the units the engine creates ----

DwellingsOf(p) == {d \in dwellings : d.parcel_id = p}
ListingsOf(p) == {l \in ListingIds : listingParcel[l] = p}
MinOf(a, b) == IF a <= b THEN a ELSE b

\* C11: a Parcel whose description gives a count N > 1 has exactly N
\* Dwellings; the first is an owner-occupied full-time residence when the
\* filing flag is true, the matched listings go to the units after the
\* first, and every other unit without a listing is a second home with
\* occupancy unknown.
C11_CountedUnits ==
    \A p \in ParcelIds :
        LET N == parse_descprop_dwelling_count(parcelIn[p].descprop)
            units == DwellingsOf(p)
            later == {d \in units : d.unit_number >= 2}
        IN  (N > 1 /\ units # {}) =>
              /\ Cardinality(units) = N
              /\ \A d \in units :
                    (d.unit_number = 1 /\ HomesteadFiled(parcelIn[p].tax))
                    => /\ d.dwelling_use = "full_time_residence"
                       /\ d.is_owner_occupied = "True"
              /\ Cardinality({d \in later : d.str_listing_id # NoListing})
                    = MinOf(Cardinality(ListingsOf(p)), N - 1)
              /\ \A d \in later :
                    d.str_listing_id = NoListing
                    => /\ d.dwelling_use = "second_home"
                       /\ d.is_owner_occupied = None

\* C12: when the description-count signal does not fire and exactly one of
\* the filing-flag, housesite-value and rental-listing signals fires, the
\* Parcel gets exactly one Dwelling, however many listings are matched.
C12_OneDwellingForSingleSignal ==
    \A p \in ParcelIds :
        (/\ ~DescSignal(p)
         /\ Cardinality({x \in {"filing", "housesite", "listing"} :
                \/ x = "filing" /\ FilingSignal(p)
                \/ x = "housesite" /\ HousesiteSignal(p)
                \/ x = "listing" /\ ListingSignal(p)}) = 1
         /\ DwellingsOf(p) # {})
        => Cardinality(DwellingsOf(p)) = 1

\* ---- claims about repeated and refused review requests ----

\* what a review entry records about the decision; no row reads as the
\* unreviewed entry
EntryOf(l) ==
    IF IsNull(review[l])
    THEN [status |-> "unreviewed", dwelling_id |-> Null,
          rejection_reason |-> Null]
    ELSE [status |-> Val(review[l]).status,
          dwelling_id |-> Val(review[l]).dwelling_id,
          rejection_reason |-> Val(review[l]).rejection_reason]

\* a step that handles a request equal to the request handled before it
RepeatedRequestStep ==
    /\ requests' = requests + 1
    /\ lastReq'.listing = lastReq.listing
    /\ lastReq'.action = lastReq.action
    /\ lastReq'.dwelling_id = lastReq.dwelling_id
    /\ lastReq'.rejection_reason = lastReq.rejection_reason

\* C13: a review request that repeats the request before it (same listing,
\* action, dwelling and reason) leaves the status, dwelling reference and
\* rejection reason of every review entry and the rental-listing link of
\* every Dwelling as the first request left them.
C13_RepeatedRequestChangesNothing ==
    [][RepeatedRequestStep
       => /\ \A l \in ListingIds : EntryOf(l)' = EntryOf(l)
          /\ dwellings' = dwellings]_vars

\* a confirm that succeeded twice in a row for a Dwelling the engine made
C13_Witness ==
    /\ sameAsLast
    /\ lastReq.action = "confirm"
    /\ lastReq.result = "ok"
    /\ \E d \in dwellings :
          /\ d.id = Val(lastReq.dwelling_id)
          /\ d.str_listing_id = lastReq.listing

\* the values of the STRRejectionReason enum
STRRejectionReason ==
    {"not_in_warren", "duplicate", "invalid_listing", "cannot_determine",
     "other"}

\* C14: a reject request is accepted only with a reason of the closed set;
\* with another reason, or none, it is refused and the entry stays as it is.
C14_RejectNeedsListedReason ==
    (lastReq.action = "reject" /\ lastReq.result = "ok")
    => /\ ~IsNull(lastReq.rejection_reason)
       /\ Val(lastReq.rejection_reason) \in STRRejectionReason

\* C15: a rental listing matched to a Parcel that has more than one Dwelling
\* is linked from no Dwelling as long as no review request has confirmed a
\* Dwelling for it.
C15_AmbiguousListingLeftUnlinked ==
    \A l \in ListingIds :
        (/\ listingParcel[l] \in ParcelIds
         /\ Cardinality(DwellingsOf(listingParcel[l])) > 1
         /\ StatusOf(l) # "confirmed")
        => \A d \in dwellings : d.str_listing_id # l

\* C16: after any sequence of parcel ingestion runs no two Parcels share
\* a SPAN, and a SPAN met again by a run has its Parcel carry the
\* attributes of that last encounter (updated, not duplicated)
C16_SpanMetAgainIsUpdated ==
    /\ \A p \in gisParcels, q \in gisParcels : p.span = q.span => p = q
    /\ gisLast.mode = "import"
       => \A s \in GisSpans :
             ~IsNull(gisLast.seen[s])
             => \E p \in gisParcels :
                   p.span = s /\ p.acres = Val(gisLast.seen[s])

\* a call of get_or_create_person whose email is held by the Person p
EmailHeldBy(p) ==
    /\ fpfCalls' = fpfCalls + 1
    /\ ~IsNull(fpfLast'.email)
    /\ p.email = fpfLast'.email

\* C17: no two Persons hold the same email, and a call whose email is
\* that of an existing Person returns that Person and creates no record,
\* whatever name, road and town the call carries
C17_EmailIsTheKey ==
    [][/\ \A p \in fpfPeople', q \in fpfPeople' :
             (~IsNull(p.email) /\ p.email = q.email) => p = q
       /\ \A p \in fpfPeople :
             EmailHeldBy(p)
             => /\ fpfLast'.person = Some(p.id)
                /\ fpfLast'.error = "none"
                /\ {q.id : q \in fpfPeople'} = {q.id : q \in fpfPeople}]_vars

\* a call matched by email a Person of another name, road and town
C17_Witness ==
    /\ ~IsNull(fpfLast.email)
    /\ ~fpfLast.created
    /\ \E p \in fpfPeople :
          /\ fpfLast.person = Some(p.id)
          /\ p.email = fpfLast.email
          /\ p.name # fpfLast.name
          /\ ~IsNull(fpfLast.road) /\ ~IsNull(p.road) /\ p.road # fpfLast.road
          /\ ~IsNull(fpfLast.town) /\ IsNull(p.town)

\* the owner of a row, when it parses to a person
PersonOf(row) ==
    LET parsed == parse_owner_name(row.owner_name)
    IN  IF IsNull(parsed) \/ Val(parsed).is_organization THEN Null ELSE parsed

\* two rows of the same full name mailed at different towns
SameNameElsewhere(a, b) ==
    /\ ~IsNull(PersonOf(a)) /\ ~IsNull(PersonOf(b))
    /\ Val(PersonOf(a)).first_name = Val(PersonOf(b)).first_name
    /\ Val(PersonOf(a)).last_name = Val(PersonOf(b)).last_name
    /\ Val(PersonOf(a)).suffix = Val(PersonOf(b)).suffix
    /\ ~IsNull(a.mailing_city) /\ ~IsNull(b.mailing_city)
    /\ a.mailing_city # b.mailing_city

\* C18: two owner rows of the same full name and different mailing towns
\* are resolved to two different Persons once the import has run
C18_SameNameElsewhereIsAnotherPerson ==
    impPc = "done"
    => \A i \in DOMAIN rows, j \in DOMAIN rows :
          SameNameElsewhere(rows[i], rows[j])
          => impSess.people[cache_key(Val(PersonOf(rows[i])))] >= 2

\* an organization name with its letter case normalized
UpperName(name) == [i \in 1..Len(name) |-> upper(name[i])]

\* C19: owner strings naming the same organization up to letter case
\* make one Organization, and no name is held by two Organizations
C19_OneOrganizationUpToCase ==
    /\ \A n \in OrgNames : impSess.organizations[n] <= 1
    /\ \A n \in OrgNames, m \in OrgNames :
          (n # m /\ UpperName(n) = UpperName(m))
          => ~(impSess.organizations[n] > 0 /\ impSess.organizations[m] > 0)

\* the calls that came back with a centroid-fallback match
CentroidMatches ==
    {i \in DOMAIN matchCalls : matchCalls[i].out.method = "spatial_centroid"}

\* C20: a centroid-fallback match has a confidence within [0.45, 0.95]
\* that does not increase with the distance, and the fallback returns no
\* match when the nearest centroid is more than 200 m away
C20_CentroidConfidence ==
    /\ \A i \in CentroidMatches :
          /\ Val(matchCalls[i].out.confidence) >= 450
          /\ Val(matchCalls[i].out.confidence) <= 950
          /\ Val(matchCalls[i].in.nearest) <= 200
    /\ \A i \in CentroidMatches, j \in CentroidMatches :
          Val(matchCalls[i].in.nearest) <= Val(matchCalls[j].in.nearest)
          => Val(matchCalls[i].out.confidence)
                >= Val(matchCalls[j].out.confidence)
    /\ \A i \in DOMAIN matchCalls :
          (/\ ~matchCalls[i].in.contained
           /\ ~IsNull(matchCalls[i].in.nearest)
           /\ Val(matchCalls[i].in.nearest) > 200)
          => matchCalls[i].out = NoMatch

\* a match at 50 m, then one at 150 m with a lower confidence, and
\* elsewhere no match at 205 m
C20_Witness ==
    /\ Len(matchCalls) = 2
    /\ CentroidMatches = {1, 2}
    /\ Val(matchCalls[1].in.nearest) = 50
    /\ Val(matchCalls[2].in.nearest) = 150
    /\ Val(matchCalls[1].out.confidence) > Val(matchCalls[2].out.confidence)

\* C21: the confidence of a centroid-fallback match falls linearly from
\* 0.95 at 0 m to 0.45 at 200 m (0.95 - distance / 400), which makes it
\* 0.70 at 100 m
C21_LinearDecayTo200m ==
    \A i \in CentroidMatches :
        400 * Val(matchCalls[i].out.confidence)
            = 400 * 950 - 1000 * Val(matchCalls[i].in.nearest)

\* C22: a bronze record whose identifier equals a Parcel's SPAN once the
\* non-alphanumeric characters are stripped from both and both are
\* upper-cased is matched to that Parcel with confidence 1.0
C22_MatchedUpToPunctuation ==
    (~IsNull(spanCall.out) )
    => \A i \in DOMAIN spanCall.parcels :
          Alphanumerics(Val(spanCall.span)) = Alphanumerics(spanCall.parcels[i])
          => /\ Val(spanCall.out).parcel_id = Some(i)
             /\ Val(spanCall.out).confidence = 1000

\* the whole-word markers of an organization
OrgMarkers ==
    LLC_PATTERN \cup CORP_PATTERN \cup TRUST_PATTERN \cup ESTATE_PATTERN

\* C23: an owner string with a whole-word LLC, Trust, Corp or Estate
\* marker parses to an organization and to no person, except the one
\* person taken from the prefix of a trust name
C23_MarkedStringIsOrganization ==
    (~IsNull(ownerCall.out) /\ search(OrgMarkers, ownerCall.raw_name))
    => /\ ~IsNull(Val(ownerCall.out).org)
       /\ \/ Val(ownerCall.out).people = <<>>
          \/ /\ Len(Val(ownerCall.out).people) = 1
             /\ Val(Val(ownerCall.out).org).type = "trust"

\* the parts of the string (counted from 1) without tokens, or with a
\* single-letter initial as their only token
InitialOnlyParts ==
    LET parts == split_amp(ownerCall.raw_name)
    IN  {i \in 1..Len(parts) :
            parts[i] = <<>> \/ (Len(parts[i]) = 1 /\ Len(parts[i][1]) = 1)}

\* C24: a joint-owner part with no tokens, or whose only token is a
\* single-letter initial, contributes no person: the people returned are
\* those of the other parts
C24_InitialOnlyPartGivesNoPerson ==
    (/\ ~IsNull(ownerCall.out)
     /\ IsNull(Val(ownerCall.out).org)
     /\ InitialOnlyParts # {})
    => LET parts == split_amp(ownerCall.raw_name)
       IN  Len(Val(ownerCall.out).people)
              <= Len(parts) - Cardinality(InitialOnlyParts)

\* the stats of the run that this step makes account for n records
RunCounts(n) ==
    /\ trStats'.records_processed = n
    /\ trStats'.records_processed
          = trStats'.records_valid + trStats'.records_skipped

\* C25: a transform run over n unprocessed bronze records ends with
\* records_processed = n = records_valid + records_skipped, and a record
\* that fails does not keep a sound one from getting its silver row
C25_BadRecordIsSkippedAndCounted ==
    [][/\ TransformStr
          => /\ RunCounts(Cardinality(unprocessed(bronzeStr, strListings)))
             /\ \A b \in unprocessed(bronzeStr, strListings) :
                   b.quality = "ok"
                   => \E x \in strListings' : x.bronze_id = b.id
       /\ TransformPttr
          => /\ RunCounts(Cardinality(unprocessed(bronzePttr, propertyTransfers)))
             /\ \A b \in unprocessed(bronzePttr, propertyTransfers) :
                   b.quality = "ok"
                   => \E x \in propertyTransfers' : x.bronze_id = b.id]_vars

\* the number of Dwellings one run creates for a parcel
SingleRunCount(p) ==
    LET str_listings == CHOOSE o \in Orderings({l \in ListingIds :
                                                   listingParcel[l] = p}) : TRUE
    IN  Len(dwellings_to_create(parcelIn[p].descprop, parcelIn[p].tax,
                                str_listings))

\* C26: whatever the interleaving of two runs without reset, no Parcel ends
\* up with more Dwellings than a single run creates for it
C26_InterleavedRunsAddNothing ==
    \A p \in ParcelIds :
        Cardinality({d \in dwellings : d.parcel_id = p}) <= SingleRunCount(p)

\* C27: every confirmed review entry names an existing Dwelling whose
\* str_listing_id is the listing of that entry
C27_ConfirmedEntryIsLinked ==
    \A l \in ListingIds :
        (~IsNull(review[l]) /\ Val(review[l]).status = "confirmed")
        => \E d \in dwellings :
              /\ Some(d.id) = Val(review[l]).dwelling_id
              /\ d.str_listing_id = l

\* no listing is the str_listing_id of two Dwellings of the store ds
AtMostOneLink(ds) ==
    \A d1, d2 \in ds :
        (d1.str_listing_id # NoListing /\ d1.str_listing_id = d2.str_listing_id)
        => d1 = d2

\* C28: a review request on a store in which each listing is linked from at
\* most one Dwelling leaves each listing linked from at most one Dwelling
C28_RequestsKeepLinksUnique ==
    [][(requests' = requests + 1 /\ AtMostOneLink(dwellings))
       => AtMostOneLink(dwellings')]_vars

\* C29: once a reject of listing L has succeeded, no Dwelling has L as its
\* str_listing_id, whoever set the link
C29_RejectedListingIsUnlinked ==
    [][(requests' = requests + 1 /\ lastReq'.action = "reject"
           /\ lastReq'.result = "ok")
       => \A d \in dwellings' : d.str_listing_id # lastReq'.listing]_vars

\* C30: when the run of main has ended, every issue and every post counted
\* in its totals is in the store, whatever emails raised along the way
C30_CountedRowsAreStored ==
    mailPc = "done"
    => /\ mailRun.total_issues <= Cardinality(mailDb.issues)
       /\ mailRun.total_posts <= Cardinality(mailDb.posts)

====
